---- MODULE Spec2Model ----
(***************************************************************************)
(* Model of the tabular record extractor (parseExcelData, parseStringData, *)
(* isNamePart, detectSubject) of the student-comment tool, and of the      *)
(* import handler of its App component (processFile).                      *)
(*                                                                         *)
(* A text is a sequence of characters.  A character is written in ASCII:   *)
(* an ASCII character is itself, and a Vietnamese letter is its base       *)
(* letter followed by its marks ("e^~" is e with circumflex and tilde,     *)
(* "o+-" is o with horn and grave, "dd" is d with stroke), so that a text  *)
(* keeps one element per UTF-16 code unit and the values of the state are  *)
(* plain ASCII.  Text("...") turns a literal of this module into a text.   *)
(*                                                                         *)
(* The lexer of the TLA+ tools rejects the code points U+0100..U+017F, so  *)
(* inside literals the four letter pairs of that block are written with a  *)
(* stand-in that occurs nowhere else in the program's text:                *)
(*     D-stroke  -> Ð / ð      A-breve -> Å / å                            *)
(*     I-tilde   -> Ï / ï      U-tilde -> Ü / ü                            *)
(*                                                                         *)
(* A JavaScript number is a fixed-point integer counting tenths (8.5 is    *)
(* 85); a cell is [t |-> "num", v |-> tenths], [t |-> "str", v |-> text]   *)
(* or [t |-> "undef"] (a hole of the sheet).                               *)
(***************************************************************************)
EXTENDS Integers, Sequences, FiniteSets, TLC

(***************************************************************************)
(* Characters and texts                                                    *)
(***************************************************************************)
LowerLetters == "abcdefghijklmnopqrstuvwxyzàáảãạåằắẳẵặâầấẩẫậðèéẻẽẹêềếểễệìíỉïịòóỏõọôồốổỗộơờớởỡợùúủüụưừứửữựỳýỷỹỵ"

UpperLetters == "ABCDEFGHIJKLMNOPQRSTUVWXYZÀÁẢÃẠÅẰẮẲẴẶÂẦẤẨẪẬÐÈÉẺẼẸÊỀẾỂỄỆÌÍỈÏỊÒÓỎÕỌÔỒỐỔỖỘƠỜỚỞỠỢÙÚỦÜỤƯỪỨỬỮỰỲÝỶỸỴ"

\* The characters of LowerLetters and UpperLetters, in the same order.
LowerNames ==
    <<"a", "b", "c", "d", "e", "f", "g", "h", "i", "j", "k", "l", "m", "n",
      "o", "p", "q", "r", "s", "t", "u", "v", "w", "x", "y", "z", "a-",
      "a'", "a?", "a~", "a.", "a(", "a(-", "a('", "a(?", "a(~", "a(.",
      "a^", "a^-", "a^'", "a^?", "a^~", "a^.", "dd", "e-", "e'", "e?",
      "e~", "e.", "e^", "e^-", "e^'", "e^?", "e^~", "e^.", "i-", "i'",
      "i?", "i~", "i.", "o-", "o'", "o?", "o~", "o.", "o^", "o^-", "o^'",
      "o^?", "o^~", "o^.", "o+", "o+-", "o+'", "o+?", "o+~", "o+.", "u-",
      "u'", "u?", "u~", "u.", "u+", "u+-", "u+'", "u+?", "u+~", "u+.",
      "y-", "y'", "y?", "y~", "y.">>

UpperNames ==
    <<"A", "B", "C", "D", "E", "F", "G", "H", "I", "J", "K", "L", "M", "N",
      "O", "P", "Q", "R", "S", "T", "U", "V", "W", "X", "Y", "Z", "A-",
      "A'", "A?", "A~", "A.", "A(", "A(-", "A('", "A(?", "A(~", "A(.",
      "A^", "A^-", "A^'", "A^?", "A^~", "A^.", "DD", "E-", "E'", "E?",
      "E~", "E.", "E^", "E^-", "E^'", "E^?", "E^~", "E^.", "I-", "I'",
      "I?", "I~", "I.", "O-", "O'", "O?", "O~", "O.", "O^", "O^-", "O^'",
      "O^?", "O^~", "O^.", "O+", "O+-", "O+'", "O+?", "O+~", "O+.", "U-",
      "U'", "U?", "U~", "U.", "U+", "U+-", "U+'", "U+?", "U+~", "U+.",
      "Y-", "Y'", "Y?", "Y~", "Y.">>

LetterCount == Len(LowerNames)

\* The character written by each letter of a literal.
CharTable ==
    [g \in {SubSeq(LowerLetters, k, k) : k \in 1..LetterCount}
              \cup {SubSeq(UpperLetters, k, k) : k \in 1..LetterCount} |->
        IF \E k \in 1..LetterCount : SubSeq(LowerLetters, k, k) = g
        THEN LowerNames[CHOOSE k \in 1..LetterCount : SubSeq(LowerLetters, k, k) = g]
        ELSE UpperNames[CHOOSE k \in 1..LetterCount : SubSeq(UpperLetters, k, k) = g]]

\* The text of a literal.
Text(s) ==
    [i \in 1..Len(s) |->
        IF SubSeq(s, i, i) \in DOMAIN CharTable THEN CharTable[SubSeq(s, i, i)]
        ELSE SubSeq(s, i, i)]

Char(s) == Text(s)[1]

TextsOf(S) == {Text(s) : s \in S}

CharAt(s, i) == s[i]

Digits == <<"0", "1", "2", "3", "4", "5", "6", "7", "8", "9">>

DigitValues == [c \in {Digits[d] : d \in 1..10} |-> (CHOOSE d \in 1..10 : Digits[d] = c) - 1]

IsDigit(c) == c \in DOMAIN DigitValues

DigitVal(c) == DigitValues[c]

IsSpace(c) == c \in {" ", "\t", "\n"}

\* The case tables as functions of the character.
UpperTable ==
    [c \in {LowerNames[k] : k \in 1..LetterCount} |->
        UpperNames[CHOOSE k \in 1..LetterCount : LowerNames[k] = c]]

LowerTable ==
    [c \in {UpperNames[k] : k \in 1..LetterCount} |->
        LowerNames[CHOOSE k \in 1..LetterCount : UpperNames[k] = c]]

UpperChar(c) == IF c \in DOMAIN UpperTable THEN UpperTable[c] ELSE c

LowerChar(c) == IF c \in DOMAIN LowerTable THEN LowerTable[c] ELSE c

\* String.prototype.toUpperCase
toUpperCase(s) == [i \in 1..Len(s) |-> UpperChar(s[i])]

\* String.prototype.toLowerCase
toLowerCase(s) == [i \in 1..Len(s) |-> LowerChar(s[i])]

\* String.prototype.trim
trim(s) ==
    LET keep == {i \in 1..Len(s) : ~IsSpace(CharAt(s, i))}
    IN  IF keep = {} THEN <<>>
        ELSE SubSeq(s, CHOOSE i \in keep : \A k \in keep : i <= k,
                       CHOOSE i \in keep : \A k \in keep : i >= k)

\* String.prototype.includes
includes(s, sub) ==
    \E i \in 1..(Len(s) - Len(sub) + 1) : SubSeq(s, i, i + Len(sub) - 1) = sub

\* String.prototype.startsWith
startsWith(s, sub) ==
    Len(s) >= Len(sub) /\ SubSeq(s, 1, Len(sub)) = sub

\* /\d/.test(s)
HasDigit(s) == \E i \in 1..Len(s) : IsDigit(CharAt(s, i))

\* /^\d+$/.test(s)
AllDigits(s) == Len(s) > 0 /\ \A i \in 1..Len(s) : IsDigit(CharAt(s, i))

\* The value of a run of decimal digits.
RECURSIVE DigitsValue(_)
DigitsValue(s) ==
    IF Len(s) = 0 THEN 0
    ELSE 10 * DigitsValue(SubSeq(s, 1, Len(s) - 1)) + DigitVal(CharAt(s, Len(s)))

\* The decimal digits of a natural number.
RECURSIVE NatToString(_)
NatToString(n) ==
    IF n < 10 THEN <<Digits[n + 1]>>
    ELSE Append(NatToString(n \div 10), Digits[(n % 10) + 1])

\* s.replace(from, to) with a one-character string pattern: the first
\* occurrence only.
replaceFirst(s, from, to) ==
    LET hits == {i \in 1..Len(s) : CharAt(s, i) = from}
    IN  IF hits = {} THEN s
        ELSE LET p == CHOOSE i \in hits : \A k \in hits : i <= k
             IN  SubSeq(s, 1, p - 1) \o to \o SubSeq(s, p + 1, Len(s))

Largest(S) == CHOOSE j \in S : \A m \in S : j >= m

Smallest(S) == CHOOSE j \in S : \A m \in S : j <= m

(***************************************************************************)
(* JavaScript values and conversions                                       *)
(***************************************************************************)
Undefined == [t |-> "undef"]

Num(v) == [t |-> "num", v |-> v]

Str(s) == [t |-> "str", v |-> s]

\* A string cell given by a literal.
Cell(s) == Str(Text(s))

\* String(number): sign, integer digits, and a fraction digit unless zero.
NumToString(v) ==
    LET a == IF v < 0 THEN -v ELSE v
        body == IF a % 10 = 0 THEN NatToString(a \div 10)
                ELSE NatToString(a \div 10) \o <<".">> \o NatToString(a % 10)
    IN  IF v < 0 THEN <<"-">> \o body ELSE body

\* String(cell)
String(cell) ==
    CASE cell.t = "num" -> NumToString(cell.v)
      [] cell.t = "str" -> cell.v
      [] OTHER -> Text("undefined")

\* The end (exclusive) of the run of digits of s that starts at p.
RECURSIVE DigitRunEnd(_, _)
DigitRunEnd(s, p) ==
    IF p <= Len(s) /\ IsDigit(CharAt(s, p)) THEN DigitRunEnd(s, p + 1) ELSE p

\* parseFloat(s): the longest prefix that is a decimal literal (optional sign,
\* digits, optional fraction), in tenths; NaN when there is none.  Digits past
\* the first fraction digit are dropped and exponents are not read: the
\* inputs of the model carry neither.
parseFloat(s0) ==
    LET s == trim(s0)
        neg == Len(s) > 0 /\ CharAt(s, 1) = "-"
        p == IF Len(s) > 0 /\ CharAt(s, 1) \in {"-", "+"} THEN 2 ELSE 1
        q == DigitRunEnd(s, p)
        dot == q <= Len(s) /\ CharAt(s, q) = "."
        r == IF dot THEN DigitRunEnd(s, q + 1) ELSE q
        intPart == DigitsValue(SubSeq(s, p, q - 1))
        frac == IF dot /\ r > q + 1 THEN DigitVal(CharAt(s, q + 1)) ELSE 0
        mag == 10 * intPart + frac
    IN  IF q = p /\ (~dot \/ r = q + 1) THEN [nan |-> TRUE, v |-> 0]
        ELSE [nan |-> FALSE, v |-> IF neg THEN -mag ELSE mag]

\* typeof cell === 'number' || (typeof cell === 'string' && /^\d+$/.test(cell.trim()))
IsNumericCell(cell) ==
    \/ cell.t = "num"
    \/ cell.t = "str" /\ AllDigits(trim(cell.v))

\* Number(cell) for a cell that passed IsNumericCell, in tenths.
NumberOf(cell) ==
    IF cell.t = "num" THEN cell.v ELSE 10 * DigitsValue(trim(cell.v))

\* cell === undefined || cell === null || String(cell).trim() === ''
IsBlankCell(cell) ==
    \/ cell.t = "undef"
    \/ trim(String(cell)) = <<>>

\* row[i] with JavaScript's 0-based index: undefined outside the array.
At(row, i) == IF i >= 0 /\ i < Len(row) THEN row[i + 1] ELSE Undefined

\* Array.prototype.join
RECURSIVE join(_, _)
join(parts, sep) ==
    IF Len(parts) = 0 THEN <<>>
    ELSE IF Len(parts) = 1 THEN parts[1]
    ELSE parts[1] \o sep \o join(Tail(parts), sep)

(***************************************************************************)
(* isNamePart                                                              *)
(***************************************************************************)
keywords ==
    TextsOf({"stt", "họ", "tên", "thứ", "ngày", "tháng", "nåm", "lớp", "trường",
     "dân", "tộc", "nữ", "nam", "ðiểm", "trung", "bình", "xếp", "loại",
     "ghi", "chú", "kết", "quả", "học", "kỳ", "môn",
     "gdcd", "công", "nghệ", "tin", "thể",
     "giáo", "viên", "người", "lập", "biểu", "thống", "kê",
     "tbm", "ðtb", "hk1", "hk2", "cn", "tốt", "khá",
     "ubnd", "thcs", "thpt", "tiểu", "phòng", "sở", "ðào", "tạo", "cộng", "hòa",
     "xã", "huyện", "tỉnh", "thành", "phố", "ðộc", "tự", "do",
     "ððg", "tx", "ðgtx", "ððgc", "nhận", "xét", "khối",
     "số", "lượng", "tỉ", "lệ", "tỷ", "phần", "tråm", "tổng",
     "sinh", "ðạt", "chưa"})

\* /^(T|K|TB|Y|G|Đ|CĐ|TX\d|HK\d)$/
IsAbbreviation(u) ==
    \/ u \in TextsOf({"T", "K", "TB", "Y", "G", "Ð", "CÐ"})
    \/ /\ Len(u) = 3
       /\ SubSeq(u, 1, 2) \in TextsOf({"TX", "HK"})
       /\ IsDigit(CharAt(u, 3))

isNamePart(val) ==
    IF val.t # "str" THEN FALSE
    ELSE LET str == trim(val.v)
             lower == toLowerCase(str)
         IN  /\ Len(str) # 0
             /\ ~HasDigit(str)
             /\ ~(Len(str) < 2 /\ toUpperCase(str) # Text("Ý"))
             /\ lower \notin TextsOf({"stt", "ððgtx", "ððgck", "ðtbmhk"})
             /\ ~(\/ includes(lower, Text("số lượng")) \/ includes(lower, Text("tỉ lệ"))
                  \/ includes(lower, Text("tỷ lệ")) \/ includes(lower, Text("thống kê")))
             /\ ~(\/ includes(lower, Text("số học sinh")) \/ lower = Text("ðạt")
                  \/ lower = Text("chưa ðạt"))
             /\ lower \notin keywords
             /\ ~(\E k \in TextsOf({"trường", "phòng", "ủy", "ban", "cộng hòa"}) :
                     includes(lower, k))
             /\ ~IsAbbreviation(toUpperCase(str))

(***************************************************************************)
(* parseExcelData: the forEach callback, one row                           *)
(***************************************************************************)
SUBJECT == "SUBJECT"

HOMEROOM == "HOMEROOM"

\* STT check: the first cell is a number or a digit string with 0 < val < 1000.
HasIndex(row) ==
    LET firstCell == At(row, 0)
    IN  /\ IsNumericCell(firstCell)
        /\ NumberOf(firstCell) > 0
        /\ NumberOf(firstCell) < 10000

\* The name loop without the tolerance of a blank cell: the loop leaves at
\* the first cell after the name began that is no name part.
RECURSIVE NameLoopNoGap(_, _, _, _)
NameLoopNoGap(row, i, nameParts, nameEndIndex) ==
    LET cell == At(row, i)
        here == [nameParts |-> nameParts, nameEndIndex |-> nameEndIndex]
    IN  IF i >= Len(row) THEN here
        ELSE IF isNamePart(cell)
             THEN NameLoopNoGap(row, i + 1, Append(nameParts, trim(String(cell))), i)
        ELSE IF Len(nameParts) = 0
             THEN NameLoopNoGap(row, i + 1, nameParts, nameEndIndex)
        ELSE here

\* The name loop from column i on; the result is nameParts and nameEndIndex
\* as the loop leaves them.
RECURSIVE NameLoop(_, _, _, _)
NameLoop(row, i, nameParts, nameEndIndex) ==
    LET cell == At(row, i)
        here == [nameParts |-> nameParts, nameEndIndex |-> nameEndIndex]
    IN  IF i >= Len(row) THEN here
        ELSE IF Len(nameParts) = 0 /\ IsNumericCell(cell)
             THEN NameLoop(row, i + 1, nameParts, nameEndIndex)
        ELSE IF Len(nameParts) = 0
             THEN IF isNamePart(cell)
                  THEN NameLoop(row, i + 1, Append(nameParts, trim(String(cell))), i)
                  ELSE NameLoop(row, i + 1, nameParts, nameEndIndex)
        ELSE IF isNamePart(cell)
             THEN NameLoop(row, i + 1, Append(nameParts, trim(String(cell))), i)
        ELSE IF IsBlankCell(cell)
             THEN IF isNamePart(At(row, i + 1))
                  THEN NameLoop(row, i + 1, nameParts, nameEndIndex)
                  ELSE here
        ELSE here

FindName(row) == NameLoop(row, 0, <<>>, -1)

\* The filtering block without its letterhead test.
PassesNameFilterNoLetterhead(fullName) ==
    LET upperName == toUpperCase(fullName)
    IN  /\ (Len(fullName) < 2 => fullName = Text("Ý"))
        /\ ~(\/ includes(upperName, Text("SỐ LƯỢNG")) \/ includes(upperName, Text("TỈ LỆ"))
             \/ includes(upperName, Text("TỶ LỆ")) \/ includes(upperName, Text("TỔNG CỘNG"))
             \/ includes(upperName, Text("THỐNG KÊ")) \/ startsWith(upperName, Text("SỐ HỌC SINH"))
             \/ upperName = Text("ÐẠT") \/ upperName = Text("CHƯA ÐẠT"))
        /\ ~(\/ includes(fullName, Text("%"))
             \/ (includes(fullName, Text("-")) /\ Len(fullName) > 5 /\ ~includes(fullName, Text(" "))))

\* The filtering block: TRUE when the callback goes on with fullName.
PassesNameFilter(fullName) ==
    LET upperName == toUpperCase(fullName)
    IN  /\ (Len(fullName) < 2 => fullName = Text("Ý"))
        /\ ~(\/ includes(upperName, Text("TRƯỜNG")) \/ includes(upperName, Text("THCS"))
             \/ includes(upperName, Text("THPT")) \/ includes(upperName, Text("UBND"))
             \/ includes(upperName, Text("CỘNG HÒA")) \/ includes(upperName, Text("ÐỘC LẬP")))
        /\ ~(\/ includes(upperName, Text("SỐ LƯỢNG")) \/ includes(upperName, Text("TỈ LỆ"))
             \/ includes(upperName, Text("TỶ LỆ")) \/ includes(upperName, Text("TỔNG CỘNG"))
             \/ includes(upperName, Text("THỐNG KÊ")) \/ startsWith(upperName, Text("SỐ HỌC SINH"))
             \/ upperName = Text("ÐẠT") \/ upperName = Text("CHƯA ÐẠT"))
        /\ ~(\/ includes(fullName, Text("%"))
             \/ (includes(fullName, Text("-")) /\ Len(fullName) > 5 /\ ~includes(fullName, Text(" "))))

\* /^(T|K|Đ|CĐ|TB|G|Y|ĐẠT|CHƯA ĐẠT)$/
SubjectRatingCodes == TextsOf({"T", "K", "Ð", "CÐ", "TB", "G", "Y", "ÐẠT", "CHƯA ÐẠT"})

\* /^(T|K|Đ|CĐ|G|TB|Y|TỐT|KHÁ|ĐẠT|CHƯA ĐẠT|GIỎI|YẾU|TRUNG BÌNH|KÉM)$/
HomeroomRatingCodes ==
    TextsOf({"T", "K", "Ð", "CÐ", "G", "TB", "Y", "TỐT", "KHÁ", "ÐẠT", "CHƯA ÐẠT",
     "GIỎI", "YẾU", "TRUNG BÌNH", "KÉM"})

\* The five data fields of the subject branch and, per field, the column it
\* was read from (-1: none).
SubjectData(subjectScore, subjectRating, col) ==
    [subjectScore |-> subjectScore, subjectRating |-> subjectRating,
     academicResult |-> Undefined, conductRating |-> Undefined,
     absences |-> Undefined,
     cols |-> [subjectScore |-> IF subjectScore.t = "undef" THEN -1 ELSE col,
               subjectRating |-> IF subjectRating.t = "undef" THEN -1 ELSE col,
               academicResult |-> -1, conductRating |-> -1, absences |-> -1]]

\* The cell of column m, as the subject branch reads it.
SubjectCellNum(row, m) == parseFloat(replaceFirst(trim(String(At(row, m))), ",", Text(".")))

SubjectCellCode(row, m) == toUpperCase(replaceFirst(trim(String(At(row, m))), ",", Text(".")))

\* A subject branch in two passes over the columns lo..j: the right-most
\* number in range wins, and a rating is taken only when there is none.
SubjectTwoPass(row, lo, j) ==
    LET nums == {m \in lo..j : /\ ~IsBlankCell(At(row, m))
                               /\ ~SubjectCellNum(row, m).nan
                               /\ SubjectCellNum(row, m).v >= 0
                               /\ SubjectCellNum(row, m).v <= 100}
        codes == {m \in lo..j : /\ ~IsBlankCell(At(row, m))
                                /\ SubjectCellNum(row, m).nan
                                /\ SubjectCellCode(row, m) \in SubjectRatingCodes}
    IN  IF nums # {}
        THEN SubjectData(Num(SubjectCellNum(row, Largest(nums)).v), Undefined, Largest(nums))
        ELSE IF codes # {}
        THEN SubjectData(Undefined, Str(SubjectCellCode(row, Largest(codes))), Largest(codes))
        ELSE SubjectData(Undefined, Undefined, -1)

\* The subject branch searching a score first and a rating only failing that.
SubjectLoopScoreFirst(row, j, nameEndIndex) == SubjectTwoPass(row, nameEndIndex + 1, j)

\* The single backward pass over the columns lo..j.
RECURSIVE SubjectPass(_, _, _)
SubjectPass(row, lo, j) ==
    IF j < lo THEN SubjectData(Undefined, Undefined, -1)
    ELSE IF IsBlankCell(At(row, j)) THEN SubjectPass(row, lo, j - 1)
    ELSE IF ~SubjectCellNum(row, j).nan
         THEN IF SubjectCellNum(row, j).v >= 0 /\ SubjectCellNum(row, j).v <= 100
              THEN SubjectData(Num(SubjectCellNum(row, j).v), Undefined, j)
              ELSE SubjectPass(row, lo, j - 1)
    ELSE IF SubjectCellCode(row, j) \in SubjectRatingCodes
         THEN SubjectData(Undefined, Str(SubjectCellCode(row, j)), j)
         ELSE SubjectPass(row, lo, j - 1)

\* The subject branch scanning the whole row, the name and the index included.
SubjectLoopWholeRow(row, j, nameEndIndex) == SubjectPass(row, 0, j)

\* The subject branch: the backward loop from column j down to
\* nameEndIndex + 1, leaving at the first break.
RECURSIVE SubjectLoop(_, _, _)
SubjectLoop(row, j, nameEndIndex) ==
    IF ~(j > nameEndIndex) THEN SubjectData(Undefined, Undefined, -1)
    ELSE LET cellStr == replaceFirst(trim(String(At(row, j))), ",", Text("."))
             cellNum == parseFloat(cellStr)
         IN  IF IsBlankCell(At(row, j)) THEN SubjectLoop(row, j - 1, nameEndIndex)
             ELSE IF ~cellNum.nan
                  THEN IF cellNum.v >= 0 /\ cellNum.v <= 100
                       THEN SubjectData(Num(cellNum.v), Undefined, j)
                       ELSE SubjectLoop(row, j - 1, nameEndIndex)
             ELSE IF toUpperCase(cellStr) \in SubjectRatingCodes
                  THEN SubjectData(Undefined, Str(toUpperCase(cellStr)), j)
                  ELSE SubjectLoop(row, j - 1, nameEndIndex)

\* After the homeroom loop, with the last rating found as conductRating.
HomeroomDataLastRating(ratingsFound, ratingCols, absences, absCol) ==
    [subjectScore |-> Undefined, subjectRating |-> Undefined,
     academicResult |-> IF Len(ratingsFound) >= 1 THEN Str(ratingsFound[1])
                        ELSE Undefined,
     conductRating |-> IF Len(ratingsFound) >= 2 THEN Str(ratingsFound[Len(ratingsFound)])
                       ELSE Undefined,
     absences |-> absences,
     cols |-> [subjectScore |-> -1, subjectRating |-> -1,
               academicResult |-> IF Len(ratingsFound) >= 1 THEN ratingCols[1] ELSE -1,
               conductRating |-> IF Len(ratingsFound) >= 2
                                 THEN ratingCols[Len(ratingsFound)] ELSE -1,
               absences |-> absCol]]

\* After the homeroom loop: the first two ratings found become
\* academicResult and conductRating.
HomeroomData(ratingsFound, ratingCols, absences, absCol) ==
    [subjectScore |-> Undefined, subjectRating |-> Undefined,
     academicResult |-> IF Len(ratingsFound) >= 1 THEN Str(ratingsFound[1])
                        ELSE Undefined,
     conductRating |-> IF Len(ratingsFound) >= 2 THEN Str(ratingsFound[2])
                       ELSE Undefined,
     absences |-> absences,
     cols |-> [subjectScore |-> -1, subjectRating |-> -1,
               academicResult |-> IF Len(ratingsFound) >= 1 THEN ratingCols[1] ELSE -1,
               conductRating |-> IF Len(ratingsFound) >= 2 THEN ratingCols[2] ELSE -1,
               absences |-> absCol]]

\* The homeroom branch: the forward loop from column j on.  ratingCols and
\* absCol are the columns ratingsFound and absences were read from.
RECURSIVE HomeroomLoop(_, _, _, _, _, _)
HomeroomLoop(row, j, ratingsFound, ratingCols, absences, absCol) ==
    IF ~(j < Len(row))
    THEN HomeroomData(ratingsFound, ratingCols, absences, absCol)
    ELSE LET str == trim(String(At(row, j)))
         IN  IF IsBlankCell(At(row, j))
             THEN HomeroomLoop(row, j + 1, ratingsFound, ratingCols, absences, absCol)
             ELSE IF toUpperCase(str) \in HomeroomRatingCodes
             THEN HomeroomLoop(row, j + 1, Append(ratingsFound, toUpperCase(str)),
                               Append(ratingCols, j), absences, absCol)
             ELSE IF AllDigits(str) /\ DigitsValue(str) >= 0 /\ DigitsValue(str) < 60
             THEN HomeroomLoop(row, j + 1, ratingsFound, ratingCols,
                               Num(10 * DigitsValue(str)), j)
             ELSE HomeroomLoop(row, j + 1, ratingsFound, ratingCols, absences, absCol)

\* Step 2 of the callback: the data fields for the role.
ExtractData(row, userRole, nameEndIndex) ==
    IF userRole = SUBJECT
    THEN SubjectLoop(row, Len(row) - 1, nameEndIndex)
    ELSE HomeroomLoop(row, nameEndIndex + 1, <<>>, <<>>, Undefined, -1)

\* The final validity check.
HasData(d, userRole) ==
    IF userRole = SUBJECT
    THEN d.subjectScore.t # "undef" \/ d.subjectRating.t # "undef"
    ELSE \/ d.academicResult.t # "undef" \/ d.conductRating.t # "undef"
         \/ d.absences.t # "undef"

\* The final validity check asking for the index and for data.
DiscardsEither(hasIndex, hasData) == ~hasIndex \/ ~hasData

\* No final validity check.
DiscardsNothing(hasIndex, hasData) == FALSE

\* if (!hasIndex && !hasData) return;
Discards(hasIndex, hasData) == ~hasIndex /\ ~hasData

\* The id as the template literal writes it.
IdString(id) ==
    Text(id.kind) \o Text("-") \o NatToString(id.time) \o Text("-") \o NatToString(id.idx)

\* The student object literal with an id that leaves the index out.
NewStudentTimeOnly(kind, time, index, r) ==
    [id |-> [kind |-> kind, time |-> time, idx |-> 0],
     name |-> r.name, comment |-> <<>>, isProcessing |-> FALSE,
     subjectScore |-> r.data.subjectScore, subjectRating |-> r.data.subjectRating,
     academicResult |-> r.data.academicResult,
     conductRating |-> r.data.conductRating,
     absences |-> r.data.absences]

\* The student object literal: id is `student-<kind>-${Date.now()}-${index}`.
NewStudent(kind, time, index, r) ==
    [id |-> [kind |-> kind, time |-> time, idx |-> index],
     name |-> r.name, comment |-> <<>>, isProcessing |-> FALSE,
     subjectScore |-> r.data.subjectScore, subjectRating |-> r.data.subjectRating,
     academicResult |-> r.data.academicResult,
     conductRating |-> r.data.conductRating,
     absences |-> r.data.absences]

\* The early returns of the callback, given the name and the data found:
\* whether a student is pushed, its name and fields, and where they came from.
RowOutcome(row, userRole, fullName, nameEndIndex, d) ==
    [emit |-> /\ Len(row) > 0
              /\ PassesNameFilter(fullName)
              /\ ~Discards(HasIndex(row), HasData(d, userRole)),
     name |-> fullName,
     data |-> d,
     origin |-> [nameEndIndex |-> nameEndIndex, cols |-> d.cols]]

RowAfterName(row, userRole, found) ==
    RowOutcome(row, userRole, trim(join(found.nameParts, Text(" "))), found.nameEndIndex,
               ExtractData(row, userRole, found.nameEndIndex))

\* The callback for one row up to the student literal.
RowResult(row, userRole) == RowAfterName(row, userRole, FindName(row))

(***************************************************************************)
(* parseStringData: the forEach callback, one line                         *)
(***************************************************************************)
\* s.split(sep) with a one-character separator; with runs set, a run of
\* separators splits once (text.split(/\n+/)).
RECURSIVE SplitFrom(_, _, _, _, _)
SplitFrom(s, sep, runs, p, start) ==
    IF p > Len(s) THEN <<SubSeq(s, start, Len(s))>>
    ELSE IF CharAt(s, p) = sep
         THEN LET e == IF runs
                       THEN CHOOSE k \in (p + 1)..(Len(s) + 1) :
                              /\ \A m \in p..(k - 1) : CharAt(s, m) = sep
                              /\ (k <= Len(s) => CharAt(s, k) # sep)
                       ELSE p + 1
              IN  <<SubSeq(s, start, p - 1)>> \o SplitFrom(s, sep, runs, e, e)
         ELSE SplitFrom(s, sep, runs, p + 1, start)

split(s, sep) == SplitFrom(s, sep, FALSE, 1, 1)

splitLines(input) == SplitFrom(input, "\n", TRUE, 1, 1)

\* The enhanced filter of pasted lines: TRUE when the line is skipped.
IsFilteredLine(lower) ==
    \/ includes(lower, Text("họ và tên")) \/ startsWith(lower, Text("stt"))
    \/ includes(lower, Text("người lập")) \/ includes(lower, Text("ngày"))
    \/ includes(lower, Text("thcs")) \/ includes(lower, Text("ubnd"))
    \/ includes(lower, Text("số lượng")) \/ includes(lower, Text("tỉ lệ"))
    \/ includes(lower, Text("số học sinh"))

\* ^\d+[\.,]?\d*$
IsNumberSuffix(s) ==
    LET q == DigitRunEnd(s, 1)
        r == IF q <= Len(s) /\ CharAt(s, q) \in {".", ","} THEN q + 1 ELSE q
    IN  q > 1 /\ DigitRunEnd(s, r) = Len(s) + 1

AsciiLetters ==
    {Text("abcdefghijklmnopqrstuvwxyzABCDEFGHIJKLMNOPQRSTUVWXYZ")[k] : k \in 1..52}

\* ^[a-zA-ZĐđC]+$
IsLetterSuffix(s) ==
    /\ Len(s) > 0
    /\ \A i \in 1..Len(s) :
          \/ CharAt(s, i) \in AsciiLetters
          \/ CharAt(s, i) \in {Char("Ð"), Char("ð")}

\* trimmed.match(/^(.*?)(\d+[\.,]?\d*|[a-zA-ZĐđC]+)$/): the lazy prefix makes
\* the suffix start at the first position from which it reaches the end.
SplitTrailing(trimmed) ==
    LET ks == {k \in 1..Len(trimmed) :
                  LET suf == SubSeq(trimmed, k, Len(trimmed))
                  IN  IsNumberSuffix(suf) \/ IsLetterSuffix(suf)}
    IN  IF ks = {} THEN <<trimmed>>
        ELSE LET k == CHOOSE a \in ks : \A b \in ks : a <= b
             IN  <<SubSeq(trimmed, 1, k - 1), SubSeq(trimmed, k, Len(trimmed))>>

\* The end (exclusive) of the run of '.', ')' and white space starting at p.
RECURSIVE PunctRunEnd(_, _)
PunctRunEnd(s, p) ==
    IF p <= Len(s) /\ (CharAt(s, p) \in {".", ")"} \/ IsSpace(CharAt(s, p)))
    THEN PunctRunEnd(s, p + 1) ELSE p

\* name.replace(/^\d+[\.\)\s]+/, '')
StripNumbering(name) ==
    LET q == DigitRunEnd(name, 1)
        r == PunctRunEnd(name, q)
    IN  IF q > 1 /\ r > q THEN SubSeq(name, r, Len(name)) ELSE name

NoOrigin ==
    [nameEndIndex |-> -1,
     cols |-> [subjectScore |-> -1, subjectRating |-> -1, academicResult |-> -1,
               conductRating |-> -1, absences |-> -1]]

\* The field assignments with the rating assigned whether or not lastPart
\* parsed as a number.
LineDataBoth(lastPart, userRole) ==
    [subjectScore |-> IF Len(lastPart) > 0 /\ userRole = SUBJECT /\ ~parseFloat(lastPart).nan
                      THEN Num(parseFloat(lastPart).v) ELSE Undefined,
     subjectRating |-> IF Len(lastPart) > 0 /\ userRole = SUBJECT
                       THEN Str(toUpperCase(lastPart)) ELSE Undefined,
     academicResult |-> Undefined,
     conductRating |-> Undefined,
     absences |-> Undefined]

\* The field assignments with the rating of a homeroom line assigned to
\* conductRating as well.
LineDataConductToo(lastPart, userRole) ==
    [subjectScore |-> IF Len(lastPart) > 0 /\ userRole = SUBJECT /\ ~parseFloat(lastPart).nan
                      THEN Num(parseFloat(lastPart).v) ELSE Undefined,
     subjectRating |-> IF Len(lastPart) > 0 /\ userRole = SUBJECT /\ parseFloat(lastPart).nan
                       THEN Str(toUpperCase(lastPart)) ELSE Undefined,
     academicResult |-> IF /\ Len(lastPart) > 0 /\ userRole # SUBJECT
                           /\ toUpperCase(lastPart) \in
                                TextsOf({"T", "K", "Ð", "CÐ", "G", "TB", "Y"})
                        THEN Str(toUpperCase(lastPart)) ELSE Undefined,
     conductRating |-> IF /\ Len(lastPart) > 0 /\ userRole # SUBJECT
                          /\ toUpperCase(lastPart) \in
                               TextsOf({"T", "K", "Ð", "CÐ", "G", "TB", "Y"})
                       THEN Str(toUpperCase(lastPart)) ELSE Undefined,
     absences |-> Undefined]

\* The field assignments of the callback, given lastPart (empty when absent).
LineData(lastPart, userRole) ==
    [subjectScore |-> IF Len(lastPart) > 0 /\ userRole = SUBJECT /\ ~parseFloat(lastPart).nan
                      THEN Num(parseFloat(lastPart).v) ELSE Undefined,
     subjectRating |-> IF Len(lastPart) > 0 /\ userRole = SUBJECT /\ parseFloat(lastPart).nan
                       THEN Str(toUpperCase(lastPart)) ELSE Undefined,
     academicResult |-> IF /\ Len(lastPart) > 0 /\ userRole # SUBJECT
                           /\ toUpperCase(lastPart) \in
                                TextsOf({"T", "K", "Ð", "CÐ", "G", "TB", "Y"})
                        THEN Str(toUpperCase(lastPart)) ELSE Undefined,
     conductRating |-> Undefined,
     absences |-> Undefined]

\* The callback from parts on.
LineOutcome(parts, userRole, skipped) ==
    [emit |-> /\ ~skipped
              /\ Len(trim(parts[1])) > 0
              /\ ~AllDigits(trim(parts[1])),
     name |-> trim(StripNumbering(trim(parts[1]))),
     data |-> LineData(IF Len(parts) > 1
                       THEN replaceFirst(trim(parts[Len(parts)]), ",", Text("."))
                       ELSE <<>>, userRole),
     origin |-> NoOrigin]

LineParts(trimmed) ==
    IF Len(split(trimmed, "\t")) < 2 THEN SplitTrailing(trimmed)
    ELSE split(trimmed, "\t")

LineTrimmed(trimmed, userRole) ==
    LineOutcome(LineParts(trimmed), userRole,
                Len(trimmed) = 0 \/ IsFilteredLine(toLowerCase(trimmed)))

\* The callback for one line up to the student literal and its field
\* assignments.
LineResult(line, userRole) == LineTrimmed(trim(line), userRole)

(***************************************************************************)
(* Inputs                                                                  *)
(***************************************************************************)
MaxDataCells == 2

MaxRows == 2

MaxLines == 2

MaxNow == 1

\* All sequences over S of length 0..n.
RECURSIVE SeqsUpTo(_, _)
SeqsUpTo(S, n) ==
    IF n = 0 THEN {<<>>}
    ELSE LET shorter == SeqsUpTo(S, n - 1)
         IN  shorter \cup {Append(q, c) : q \in shorter, c \in S}

\* What a row may start with: nothing, or a row number (as a number or as
\* digits).
Leads == {<<>>, <<Num(10)>>, <<Cell("2")>>}

\* The name columns: no name, one part, the one-letter name, a letterhead
\* fragment that passes isNamePart, two parts, a part and a hole, two parts
\* around a hole.
NameSpans ==
    {<<>>, <<Cell("Lê An")>>, <<Cell("Ý")>>, <<Cell("THCS Ba")>>,
     <<Cell("Lê"), Cell(" An ")>>, <<Cell("Lê An"), Undefined>>,
     <<Cell("Lê"), Undefined, Cell("An")>>}

\* Cells of the data columns: a hole, a comma-decimal score, a rating code, a
\* small integer, a class label, an out-of-range number and a stray name part.
DataCells ==
    {Undefined, Cell("8,5"), Cell("k"), Num(20), Cell("9A"), Cell("85"), Cell("Vån")}

\* Further rows: three ratings and two absence counts, a score left of a
\* rating, a percentage and a code in the name column, row numbers out of
\* range, a hole before the name.
SampleRows ==
    {<<Num(10), Cell("Lê An"), Cell("T"), Cell("ðạt"), Cell("K"), Num(20), Cell("3")>>,
     <<Num(10), Cell("Lê An"), Num(70), Undefined, Cell("CÐ"), Cell("Lớp")>>,
     <<Num(10), Cell("Lê An"), Cell("Giỏi"), Cell("Tốt"), Num(600), Num(15)>>,
     <<Num(10), Cell("%%"), Num(85)>>,
     <<Num(10), Cell("AB-CDE"), Num(85)>>,
     <<Num(10000), Cell("Lê An")>>,
     <<Num(0), Cell("Lê An")>>,
     <<Num(10), Undefined, Cell("Lê An"), Cell("Ð")>>,
     <<Cell("Lê An"), Cell("-1"), Cell("10"), Cell("11")>>}

Rows ==
    SampleRows \cup
    {lead \o names \o data :
        lead \in Leads, names \in NameSpans,
        data \in SeqsUpTo(DataCells, MaxDataCells)}

\* Rows of a whole sheet: letterhead, column header, students (one without
\* a mark, one without a number), footer.
SheetRows ==
    {<<Cell(""), Cell("TRƯỜNG THCS ÐOÀN BẢO ÐỨC"), Cell(""), Cell("")>>,
     <<Cell("STT"), Cell("Họ và tên"), Cell("Toán")>>,
     <<Cell("1"), Cell("Nguyễn"), Cell("Vån"), Cell("An"), Cell("8.5")>>,
     <<Cell("2"), Cell("Trần Thị Bình"), Cell("K")>>,
     <<Cell("3"), Cell("Lê Vån Cường"), Cell("T"), Cell("Ð"), Cell("2")>>,
     <<Cell("4"), Cell("Phạm Thu")>>,
     <<Cell("Hoàng Mai"), Cell("Ð")>>,
     <<Cell("Tổng cộng"), Num(30)>>}

Grids ==
    {<<r>> : r \in Rows}
        \cup {g \in SeqsUpTo(SheetRows, MaxRows) : Len(g) >= 2}

TextLines ==
    TextsOf({"", "STT\tHọ và tên\tÐiểm", "1. Nguyễn Vån An\t8,5", "Trần Thị Bình K",
     "Lê Vån Cường\tT", "Phạm Thu\t9\tK", "Ðỗ Hà 15", "Hoàng Mai\tabc",
     "1.\t8", "2)", "12", "TRƯỜNG TIỂU HỌC A", "Tổng cộng\t30"})

Texts ==
    {join(ls, Text("\n")) : ls \in {q \in SeqsUpTo(TextLines, MaxLines) : Len(q) >= 1}}

(***************************************************************************)
(* parseExcelData before the row loop, and detectSubject.                  *)
(***************************************************************************)
\* What XLSX.read makes of fileData: it throws, or gives a workbook without
\* sheet names, or one whose first sheet is missing, or one with a first sheet.
Containers == {"unreadable", "nosheets", "nosheet", "sheet"}

\* The statements before the row loop outside a try statement: the exception
\* of XLSX.read leaves the function.
OpenOutcomeNoTry(c, grid) ==
    CASE c = "unreadable" -> "throw"
      [] c = "nosheets" -> "return"
      [] c = "nosheet" -> "return"
      [] Len(grid) = 0 -> "return"
      [] OTHER -> "rows"

\* Where control is after the statements before the row loop: in the loop,
\* back at the caller with { students: [] } (early return or catch clause),
\* or at the caller with an exception.
AfterOpen(outcome) ==
    CASE outcome = "rows" -> "rows"
      [] outcome = "throw" -> "raised"
      [] OTHER -> "done"

\* Where the statements before the row loop lead: to the catch clause, to one
\* of the early returns, or into the loop.
OpenOutcome(c, grid) ==
    CASE c = "unreadable" -> "catch"
      [] c = "nosheets" -> "return"
      [] c = "nosheet" -> "return"
      [] Len(grid) = 0 -> "return"
      [] OTHER -> "rows"

\* No slice: the whole array.
sliceAll(seq, from, to) == seq

\* rawData.slice(from, to)
slice(seq, from, to) ==
    [i \in 1..(Smallest({to, Len(seq)}) - from) |-> seq[from + i]]

\* rawData.slice(0, 5)
HeaderRowCount == 5

\* headers.flat()
RECURSIVE flat(_)
flat(rows) == IF rows = <<>> THEN <<>> ELSE Head(rows) \o flat(Tail(rows))

\* An element as Array.prototype.join writes it: nothing for undefined.
JoinString(cell) == IF cell.t = "undef" THEN <<>> ELSE String(cell)

\* The keyword groups of detectSubject in the order they are tried, each with
\* the label it returns.
SubjectKeywords ==
    <<[label |-> "Toán", words |-> <<"toán">>],
      [label |-> "Vån", words |-> <<"vån", "việt", "ngữ">>],
      [label |-> "LS & ÐL", words |-> <<"lịch sử", "ðịa lý", "sử", "ðịa">>],
      [label |-> "KHTN",
       words |-> <<"khoa học tự nhiên", "khtn", "lý", "hóa", "sinh", "vật lý",
                   "vật lí", "sinh học", "hóa học">>],
      [label |-> "Tin học", words |-> <<"tin", "tin học">>],
      [label |-> "Ng.ngữ", words |-> <<"anh", "ngoại ngữ", "tiếng anh">>],
      [label |-> "GDCD", words |-> <<"gdcd", "công dân">>],
      [label |-> "C.nghệ", words |-> <<"công nghệ">>],
      [label |-> "GDTC", words |-> <<"thể dục", "gdtc", "thể chất">>],
      [label |-> "Nghệ thuật",
       words |-> <<"nhạc", "mỹ thuật", "âm nhạc", "nghệ thuật">>],
      [label |-> "NDGDCÐP", words |-> <<"ðịa phương", "ndgdcðp">>],
      [label |-> "HÐTN&HN", words |-> <<"trải nghiệm", "hướng nghiệp", "hðtn">>]>>

\* flatHeaders.includes(w) for one of the words of group g.
GroupMatches(flatHeaders, g) ==
    \E j \in 1..Len(SubjectKeywords[g].words) :
        includes(flatHeaders, Text(SubjectKeywords[g].words[j]))

\* The chain of if statements from group g on.
RECURSIVE DetectFrom(_, _)
DetectFrom(flatHeaders, g) ==
    IF g > Len(SubjectKeywords) THEN Undefined
    ELSE IF GroupMatches(flatHeaders, g) THEN Str(Text(SubjectKeywords[g].label))
    ELSE DetectFrom(flatHeaders, g + 1)

FlatHeaders(headers) ==
    toLowerCase(join([i \in 1..Len(flat(headers)) |-> JoinString(flat(headers)[i])],
                     Text(" ")))

detectSubject(headers) == DetectFrom(FlatHeaders(headers), 1)

\* Sheets of more than five rows: the subject is named in the fifth row or
\* only in the sixth.
LongGrids ==
    {<<<<Cell("Sổ ðiểm")>>, <<>>, <<Undefined, Num(10)>>, <<>>,
       <<Cell("Môn: Lịch"), Cell("Sử")>>, <<Cell("1"), Cell("Lê An"), Cell("8")>>>>,
     <<<<Cell("Sổ ðiểm")>>, <<>>, <<Undefined, Num(10)>>, <<>>, <<>>,
       <<Cell("Tin học")>>, <<Cell("1"), Cell("Lê An"), Cell("8")>>>>}

(***************************************************************************)
(* The extractor as a state machine: one call of parseExcelData or         *)
(* parseStringData, one forEach callback per step.                         *)
(***************************************************************************)
VARIABLES
    call,       \* the function called: "parseExcelData" or "parseStringData"
    role,       \* the TeacherRole argument
    container,  \* what XLSX.read makes of fileData
    rawData,    \* the sheet as rows of cells (sheet_to_json, header: 1)
    text,       \* the pasted text
    pc,         \* "open", "rows", "lines" (inside forEach), "done" (returned)
                \* or "raised" (left by an exception)
    rowIndex,   \* the forEach index of the next row or line
    students,   \* the students array
    detectedSubject,    \* the detectedSubject of the result
    origins,    \* history: per student, nameEndIndex and the column of each field
    now,        \* Date.now()
    earlier       \* history: the argument and the result of an earlier call

\* The state of the App component that processFile reads and writes.
VARIABLES
    appStudents,    \* the students state of App: the working set
    appFrom,        \* history: per record of the working set, the import that made it
    errorMsg,       \* the errorMsg state (Undefined for null)
    subjectName,    \* the subjectName state
    isGenerating,   \* the isGenerating state
    isExtracting,   \* the isExtracting state
    imports         \* the calls of processFile: file, captured role, position

appVars ==
    <<appStudents, appFrom, errorMsg, subjectName, isGenerating, isExtracting, imports>>

\* The state of App that the generation of comments reads and writes, and
\* the calls in flight.
VARIABLES
    batches,        \* the calls of executeGeneration: targets, group, position
    singles,        \* the calls of handleRegenerateSingle: student id, position
    statusMsg,      \* the statusMsg state
    showKeyModal,   \* the showKeyModal state
    deleted,        \* history: the ids given to deleteStudent
    retry           \* a call of callWithRetry: attempt, position, what happened

genVars == <<batches, singles, statusMsg, showKeyModal, deleted>>

vars ==
    <<call, role, container, rawData, text, pc, rowIndex, students,
      detectedSubject, origins, now, earlier, appVars, genVars, retry>>

\* statusMsg as it is shown: nothing, the line of a group being processed, or
\* the line of a rest between two groups.
NoStatus == [kind |-> "none", from |-> 0, to |-> 0, progress |-> 0]

\* No call of callWithRetry.
NoRetry == [pc |-> "idle", i |-> 0, outcomes |-> <<>>, waits |-> <<>>]

\* No generation was ever started.
NoGeneration ==
    /\ batches = <<>>
    /\ singles = <<>>
    /\ statusMsg = NoStatus
    /\ showKeyModal = FALSE
    /\ deleted = {}

\* App as it is mounted: no student, no message, the first subject of the list.
AppMounted ==
    /\ appStudents = <<>>
    /\ appFrom = <<>>
    /\ errorMsg = Undefined
    /\ subjectName = Cell("Toán")
    /\ isGenerating = FALSE
    /\ isExtracting = FALSE

\* No earlier call.
NoCall == [rawData |-> <<>>, students |-> <<>>, detectedSubject |-> Undefined,
           isolated |-> -2]

\* A call of parseExcelData on fileData that holds the grid g in its first
\* sheet, or of parseStringData on a text.
InitExcel(grids) ==
    /\ call = "parseExcelData"
    /\ \/ container = "sheet" /\ rawData \in grids
       \/ container \in Containers \ {"sheet"} /\ rawData = <<>>
    /\ text = <<>>
    /\ pc = "open"

InitText ==
    /\ call = "parseStringData"
    /\ container = "none"
    /\ rawData = <<>>
    /\ text \in Texts
    /\ pc = "lines"

InitRest ==
    /\ role \in {SUBJECT, HOMEROOM}
    /\ rowIndex = 0
    /\ students = <<>>
    /\ detectedSubject = Undefined
    /\ origins = <<>>
    /\ now = 0
    /\ earlier = NoCall
    /\ AppMounted
    /\ imports = <<>>
    /\ NoGeneration
    /\ retry = NoRetry

Init == (InitExcel(Grids \cup {<<>>} \cup LongGrids) \/ InitText) /\ InitRest

\* students.push(student) unless a student of that name is there already.
PushOncePerName(kind, r) ==
    IF r.emit /\ \A k \in 1..Len(students) : students[k].name # r.name
    THEN \E t \in {now, now + 1} \cap (0..MaxNow) :
            /\ now' = t
            /\ students' = Append(students, NewStudent(kind, t, rowIndex, r))
            /\ origins' = Append(origins, r.origin)
    ELSE UNCHANGED <<now, students, origins>>

\* students.push(student) when the callback did not return early.  Date.now()
\* is read only when the student literal is built: the clock shows the time
\* of the last reading or the next tick.
Push(kind, r) ==
    IF r.emit
    THEN \E t \in {now, now + 1} \cap (0..MaxNow) :
            /\ now' = t
            /\ students' = Append(students, NewStudent(kind, t, rowIndex, r))
            /\ origins' = Append(origins, r.origin)
    ELSE UNCHANGED <<now, students, origins>>

\* The statements of parseExcelData before the row loop, with a students
\* array that is not made anew by the call.
ExcelOpenSameStudents ==
    /\ pc = "open"
    /\ pc' = AfterOpen(OpenOutcome(container, rawData))
    /\ detectedSubject' =
          IF OpenOutcome(container, rawData) = "rows"
          THEN detectSubject(slice(rawData, 0, HeaderRowCount))
          ELSE Undefined
    /\ UNCHANGED <<appVars, genVars, retry>>
    /\ UNCHANGED <<call, role, container, rawData, text, rowIndex, students,
                   origins, now, earlier>>

\* The statements of parseExcelData before the row loop.  XLSX.read throws on
\* a container it cannot read, and the catch clause returns { students: [] };
\* the three early returns give the same.  Otherwise detectedSubject is
\* computed and students starts empty.
ExcelOpen ==
    /\ pc = "open"
    /\ pc' = AfterOpen(OpenOutcome(container, rawData))
    /\ detectedSubject' =
          IF OpenOutcome(container, rawData) = "rows"
          THEN detectSubject(slice(rawData, 0, HeaderRowCount))
          ELSE Undefined
    /\ students' = <<>>
    /\ origins' = <<>>
    /\ UNCHANGED <<appVars, genVars, retry>>
    /\ UNCHANGED <<call, role, container, rawData, text, rowIndex, now, earlier>>

\* rawData.forEach callback for row rowIndex.
ExcelRow ==
    /\ pc = "rows"
    /\ rowIndex < Len(rawData)
    /\ Push("student-xls", RowResult(rawData[rowIndex + 1], role))
    /\ rowIndex' = rowIndex + 1
    /\ UNCHANGED <<appVars, genVars, retry>>
    /\ UNCHANGED <<call, role, container, rawData, text, pc, detectedSubject, earlier>>

\* return { students, detectedSubject }
ExcelReturn ==
    /\ pc = "rows"
    /\ rowIndex = Len(rawData)
    /\ pc' = "done"
    /\ UNCHANGED <<appVars, genVars, retry>>
    /\ UNCHANGED <<call, role, container, rawData, text, rowIndex, students,
                   detectedSubject, origins, now, earlier>>

\* lines.forEach callback for line rowIndex.
TextLine ==
    /\ pc = "lines"
    /\ rowIndex < Len(splitLines(text))
    /\ Push("student-txt", LineResult(splitLines(text)[rowIndex + 1], role))
    /\ rowIndex' = rowIndex + 1
    /\ UNCHANGED <<appVars, genVars, retry>>
    /\ UNCHANGED <<call, role, container, rawData, text, pc, detectedSubject, earlier>>

\* return students
TextReturn ==
    /\ pc = "lines"
    /\ rowIndex = Len(splitLines(text))
    /\ pc' = "done"
    /\ UNCHANGED <<appVars, genVars, retry>>
    /\ UNCHANGED <<call, role, container, rawData, text, rowIndex, students,
                   detectedSubject, origins, now, earlier>>

Next == ExcelOpen \/ ExcelRow \/ ExcelReturn \/ TextLine \/ TextReturn

Spec == Init /\ [][Next]_vars

\* A second call of parseExcelData in the same mode once the first has
\* returned: on the same grid, or on the grid that holds only one of its rows.
CallAgain ==
    /\ pc = "done"
    /\ call = "parseExcelData"
    /\ container = "sheet"
    /\ earlier = NoCall
    /\ \E i \in -1 .. (Len(rawData) - 1) :
          /\ earlier' = [rawData |-> rawData, students |-> students,
                       detectedSubject |-> detectedSubject, isolated |-> i]
          /\ rawData' = IF i = -1 THEN rawData ELSE <<rawData[i + 1]>>
    /\ pc' = "open"
    /\ rowIndex' = 0
    /\ UNCHANGED <<appVars, genVars, retry>>
    /\ UNCHANGED <<call, role, container, text, students, detectedSubject, origins, now>>

InitAgain ==
    InitExcel({<<r>> : r \in SampleRows} \cup {g \in SeqsUpTo(SheetRows, MaxRows) : Len(g) >= 2})
        /\ InitRest

NextAgain == ExcelOpen \/ ExcelRow \/ ExcelReturn \/ CallAgain

SpecAgain == InitAgain /\ [][NextAgain]_vars

(***************************************************************************)
(* Vocabulary of the properties.  These restate, cell by cell, what the    *)
(* documentation says of a row; they are not used by the actions.          *)
(***************************************************************************)
IsSet(v) == v.t # "undef"

FromGrid == call = "parseExcelData"

FromText == call = "parseStringData"

Returned == pc = "done"

\* The row a grid student was built from (its id carries the row index).
RowOf(k) == rawData[students[k].id.idx + 1]

Emitted(i) == \E k \in 1..Len(students) : students[k].id.idx = i

\* The columns holding a name-part candidate.
NameCols(row) == {i \in 0..(Len(row) - 1) : isNamePart(At(row, i))}

\* The candidates of the run that starts at column first: every column from
\* there to the candidate is a candidate, or blank with a candidate next.
RunFrom(row, cand, first) ==
    {i \in cand :
        \A m \in (first + 1)..i :
            \/ m \in cand
            \/ IsBlankCell(At(row, m)) /\ (m + 1) \in cand}

SpanOf(row, cand) == IF cand = {} THEN {} ELSE RunFrom(row, cand, Smallest(cand))

\* The columns of the name span.
SpanCols(row) == SpanOf(row, NameCols(row))

\* The end of a name span (-1: the row has no name).
EndOf(cols) == IF cols = {} THEN -1 ELSE Largest(cols)

SpanEnd(row) == EndOf(SpanCols(row))

\* The trimmed cells of the columns cols at or after column i, in column order.
RECURSIVE CellsFrom(_, _, _)
CellsFrom(row, cols, i) ==
    IF i >= Len(row) THEN <<>>
    ELSE IF i \in cols THEN <<trim(String(At(row, i)))>> \o CellsFrom(row, cols, i + 1)
    ELSE CellsFrom(row, cols, i + 1)

NameOf(row, cols) == join(CellsFrom(row, cols, 0), Text(" "))

SpanName(row) == NameOf(row, SpanCols(row))

\* The first cell is numeric with 0 < value < 1000.
ValidLeadingIndex(row) ==
    /\ Len(row) > 0
    /\ \/ row[1].t = "num" /\ row[1].v > 0 /\ row[1].v < 10000
       \/ /\ row[1].t = "str"
          /\ AllDigits(trim(row[1].v))
          /\ DigitsValue(trim(row[1].v)) \in 1..999

\* The cell's text with a decimal comma read as a point.
CellText(cell) == replaceFirst(trim(String(cell)), ",", Text("."))

\* The value of a cell that holds a number, in tenths.
CellValue(cell) == parseFloat(CellText(cell)).v

\* The rating code a cell holds.
CellCode(cell) == toUpperCase(trim(String(cell)))

\* The text is a decimal numeral as a whole: sign, digits, fraction.
IsNumeral(s) ==
    LET p == IF Len(s) > 0 /\ CharAt(s, 1) \in {"-", "+"} THEN 2 ELSE 1
        q == DigitRunEnd(s, p)
        r == IF q <= Len(s) /\ CharAt(s, q) = "." THEN DigitRunEnd(s, q + 1) ELSE q
    IN  r = Len(s) + 1 /\ (q > p \/ r > q + 1)

\* The cell holds a number in [0, 10]: a numeric cell, or text that is a
\* numeral as a whole.
IsScoreCell(cell) ==
    /\ ~IsBlankCell(cell)
    /\ IsNumeral(CellText(cell))
    /\ CellValue(cell) >= 0
    /\ CellValue(cell) <= 100

\* The cell's text begins with a numeral of value in [0, 10]: "9A" counts, as 9.
StartsWithScore(cell) ==
    /\ ~IsBlankCell(cell)
    /\ ~parseFloat(CellText(cell)).nan
    /\ CellValue(cell) >= 0
    /\ CellValue(cell) <= 100

IsSubjectRatingCell(cell) == ~IsBlankCell(cell) /\ CellCode(cell) \in SubjectRatingCodes

IsHomeroomRatingCell(cell) == ~IsBlankCell(cell) /\ CellCode(cell) \in HomeroomRatingCodes

\* The cell is an integer in [0, 60).
IsAbsenceCell(cell) ==
    \/ cell.t = "num" /\ cell.v % 10 = 0 /\ cell.v >= 0 /\ cell.v < 600
    \/ cell.t = "str" /\ AllDigits(trim(cell.v)) /\ DigitsValue(trim(cell.v)) < 60

AbsenceValue(cell) ==
    IF cell.t = "num" THEN Num(cell.v) ELSE Num(10 * DigitsValue(trim(cell.v)))

\* The columns right of a name span that ends at column end.
DataCols(row, end) == (end + 1)..(Len(row) - 1)

\* The row yields a data field of the mode.
YieldsData(row, end, mode) ==
    IF mode = SUBJECT
    THEN \E j \in DataCols(row, end) :
            StartsWithScore(At(row, j)) \/ IsSubjectRatingCell(At(row, j))
    ELSE \E j \in DataCols(row, end) :
            IsHomeroomRatingCell(At(row, j)) \/ IsAbsenceCell(At(row, j))

DataFields ==
    {"subjectScore", "subjectRating", "academicResult", "conductRating", "absences"}

NoFieldSet(s) == \A f \in DataFields : ~IsSet(s[f])

(***************************************************************************)
(* Properties                                                              *)
(***************************************************************************)
C1_Row(i, row, cols) ==
    (Len(row) > 0 /\ PassesNameFilter(NameOf(row, cols))) =>
        /\ Emitted(i) <=> (ValidLeadingIndex(row) \/ YieldsData(row, EndOf(cols), role))
        /\ \A k \in 1..Len(students) :
              (students[k].id.idx = i /\ ~YieldsData(row, EndOf(cols), role)) =>
                  NoFieldSet(students[k])

\* C1: structural-evidence gate.  For every processed grid row whose
\* assembled name passes the name validity filter, a record is emitted for
\* the row iff the row has a valid leading index or yields a data field of
\* the mode; a record of a row that yields none has no data field set.
C1_StructuralGate ==
    (FromGrid /\ Returned) =>
        \A i \in 0..(rowIndex - 1) : C1_Row(i, rawData[i + 1], SpanCols(rawData[i + 1]))

\* C1 witness: a sheet was read in SUBJECT mode in which an indexed, named row
\* without score or rating gave a record with both fields undefined, and an
\* un-indexed named row without data gave none.
C1_Witness ==
    /\ FromGrid /\ Returned /\ role = SUBJECT
    /\ \E k \in 1..Len(students) :
          /\ ValidLeadingIndex(RowOf(k))
          /\ ~YieldsData(RowOf(k), SpanEnd(RowOf(k)), role)
          /\ ~IsSet(students[k].subjectScore)
          /\ ~IsSet(students[k].subjectRating)
    /\ \E i \in 0..(rowIndex - 1) :
          /\ PassesNameFilter(SpanName(rawData[i + 1]))
          /\ ~ValidLeadingIndex(rawData[i + 1])
          /\ ~Emitted(i)

\* C2 as stated: in SUBJECT mode every record of the grid extractor has exactly
\* one of subjectScore and subjectRating set.
C2_ExactlyOne ==
    (FromGrid /\ role = SUBJECT) =>
        \A k \in 1..Len(students) :
            IsSet(students[k].subjectScore) # IsSet(students[k].subjectRating)

\* C2 amended: in SUBJECT mode every record of the grid extractor has at most
\* one of subjectScore and subjectRating set, and exactly one unless its row
\* has a valid leading index (an indexed row without score or rating gives a
\* record with neither).
C2_ExactlyOneUnlessIndexed ==
    (FromGrid /\ role = SUBJECT) =>
        \A k \in 1..Len(students) :
            /\ ~(IsSet(students[k].subjectScore) /\ IsSet(students[k].subjectRating))
            /\ ~ValidLeadingIndex(RowOf(k)) =>
                  (IsSet(students[k].subjectScore) \/ IsSet(students[k].subjectRating))

\* C2 witness: an un-indexed row gave a record with exactly one field set, and
\* an indexed row gave a record with neither.
C2_Witness ==
    /\ FromGrid /\ Returned /\ role = SUBJECT
    /\ \E k \in 1..Len(students) :
          /\ ~ValidLeadingIndex(RowOf(k))
          /\ IsSet(students[k].subjectRating)
          /\ ~IsSet(students[k].subjectScore)
    /\ \E k \in 1..Len(students) :
          /\ ValidLeadingIndex(RowOf(k))
          /\ NoFieldSet(students[k])

\* C3: in SUBJECT mode no record of the grid extractor or of the text
\* extractor has both subjectScore and subjectRating set.
C3_NeverBoth ==
    role = SUBJECT =>
        \A k \in 1..Len(students) :
            ~(IsSet(students[k].subjectScore) /\ IsSet(students[k].subjectRating))

\* C3 witness: the text extractor returned, in SUBJECT mode, one record with
\* a score and one with a rating.
C3_Witness ==
    /\ FromText /\ Returned /\ role = SUBJECT
    /\ \E k \in 1..Len(students) : IsSet(students[k].subjectScore)
    /\ \E k \in 1..Len(students) : IsSet(students[k].subjectRating)

C4_Record(s, o, row, qual) ==
    IF qual = {} THEN ~IsSet(s.subjectScore) /\ ~IsSet(s.subjectRating)
    ELSE IF IsScoreCell(At(row, Largest(qual)))
    THEN /\ s.subjectScore = Num(CellValue(At(row, Largest(qual))))
         /\ ~IsSet(s.subjectRating)
         /\ o.cols.subjectScore = Largest(qual)
    ELSE /\ s.subjectRating = Str(CellCode(At(row, Largest(qual))))
         /\ ~IsSet(s.subjectScore)
         /\ o.cols.subjectRating = Largest(qual)

C4_Qualifying(row, end) ==
    {j \in DataCols(row, end) : IsScoreCell(At(row, j)) \/ IsSubjectRatingCell(At(row, j))}

\* C4 as stated: in SUBJECT mode the single data field of a grid record is
\* taken from the right-most cell right of the name span that is a number in
\* [0, 10] or a recognised rating code; blank cells, out-of-range numbers and
\* unrecognised text are skipped.
C4_RightmostNumberOrRating ==
    (FromGrid /\ Returned /\ role = SUBJECT) =>
        \A k \in 1..Len(students) :
            C4_Record(students[k], origins[k], RowOf(k),
                      C4_Qualifying(RowOf(k), SpanEnd(RowOf(k))))

C5_AsStated(s, row, data) ==
    /\ (\E j \in data : IsScoreCell(At(row, j))) =>
          /\ IsSet(s.subjectScore)
          /\ ~IsSet(s.subjectRating)
    /\ IsSet(s.subjectRating) => ~\E j \in data : IsScoreCell(At(row, j))

\* C5 as stated: in SUBJECT mode, if any cell right of the name span holds a
\* number in [0, 10], subjectScore is set and subjectRating is not; a rating
\* is taken only when no such cell exists.
C5_ScoreBeforeRating ==
    (FromGrid /\ Returned /\ role = SUBJECT) =>
        \A k \in 1..Len(students) :
            C5_AsStated(students[k], RowOf(k), DataCols(RowOf(k), SpanEnd(RowOf(k))))

C5_LastNonBlank(s, row, nonBlank) ==
    (nonBlank # {} /\ IsSubjectRatingCell(At(row, Largest(nonBlank)))) =>
        /\ s.subjectRating = Str(CellCode(At(row, Largest(nonBlank))))
        /\ ~IsSet(s.subjectScore)

C5_Record(s, o, row, data) ==
    /\ \A j \in data :
          (/\ IsScoreCell(At(row, j))
           /\ ~\E m \in data : m > j /\ IsSubjectRatingCell(At(row, m))) =>
              IsSet(s.subjectScore) /\ ~IsSet(s.subjectRating)
    /\ IsSet(s.subjectRating) =>
          /\ o.cols.subjectRating \in data
          /\ IsSubjectRatingCell(At(row, o.cols.subjectRating))
          /\ s.subjectRating = Str(CellCode(At(row, o.cols.subjectRating)))
          /\ ~\E m \in data : m > o.cols.subjectRating /\ IsScoreCell(At(row, m))
    /\ C5_LastNonBlank(s, row, {j \in data : ~IsBlankCell(At(row, j))})

\* C5 amended: in SUBJECT mode the right-most qualifying cell decides.  If a
\* cell right of the name span holds a number in [0, 10] and no rating-code
\* cell lies right of it, subjectScore is set and subjectRating is not;
\* subjectRating is set only from a rating-code cell with no number in
\* [0, 10] right of it; and when the last non-blank cell of the row is a
\* rating code, subjectRating is that code and subjectScore is unset, also
\* when a cell further left holds a number in [0, 10].
C5_RightmostDecides ==
    (FromGrid /\ Returned /\ role = SUBJECT) =>
        \A k \in 1..Len(students) :
            C5_Record(students[k], origins[k], RowOf(k),
                      DataCols(RowOf(k), SpanEnd(RowOf(k))))

\* C5 witness: a record took its rating from the right-most cell although a
\* cell further left, right of the name span, holds a number in [0, 10].
C5_Witness ==
    /\ FromGrid /\ Returned /\ role = SUBJECT
    /\ \E k \in 1..Len(students) :
          /\ IsSet(students[k].subjectRating)
          /\ ~IsSet(students[k].subjectScore)
          /\ \E j \in DataCols(RowOf(k), SpanEnd(RowOf(k))) :
                /\ IsScoreCell(At(RowOf(k), j))
                /\ j < origins[k].cols.subjectRating

C6_Ratings(row, data) == {j \in data : IsHomeroomRatingCell(At(row, j))}

C6_Absences(row, data) ==
    {j \in data : ~IsHomeroomRatingCell(At(row, j)) /\ IsAbsenceCell(At(row, j))}

C6_Record(s, row, ratings, absent) ==
    /\ s.academicResult =
          IF ratings = {} THEN Undefined
          ELSE Str(CellCode(At(row, Smallest(ratings))))
    /\ s.conductRating =
          IF Cardinality(ratings) < 2 THEN Undefined
          ELSE Str(CellCode(At(row, Smallest(ratings \ {Smallest(ratings)}))))
    /\ s.absences =
          IF absent = {} THEN Undefined
          ELSE AbsenceValue(At(row, Largest(absent)))

\* C6: in HOMEROOM mode, of the cells right of the name span, the first
\* rating-code cell gives academicResult, the second gives conductRating,
\* further rating cells give nothing, and absences is the last cell that is
\* no rating code and holds an integer in [0, 60); a field without such a
\* cell is undefined.
C6_HomeroomFields ==
    (FromGrid /\ Returned /\ role = HOMEROOM) =>
        \A k \in 1..Len(students) :
            C6_Record(students[k], RowOf(k),
                      C6_Ratings(RowOf(k), DataCols(RowOf(k), SpanEnd(RowOf(k)))),
                      C6_Absences(RowOf(k), DataCols(RowOf(k), SpanEnd(RowOf(k)))))

\* C6 witness: the row ["3", "Lê Văn Cường", "T", "Đ", "2"] gave
\* academicResult T, conductRating Đ and absences 2 in HOMEROOM mode.
C6_Witness ==
    /\ FromGrid /\ Returned /\ role = HOMEROOM
    /\ \E k \in 1..Len(students) :
          /\ RowOf(k) = <<Cell("3"), Cell("Lê Vån Cường"), Cell("T"), Cell("Ð"), Cell("2")>>
          /\ students[k].academicResult = Cell("T")
          /\ students[k].conductRating = Cell("Ð")
          /\ students[k].absences = Num(20)

\* What the cell of column j gives for the data field f.
FieldOfCell(f, cell) ==
    CASE f = "subjectScore" -> Num(CellValue(cell))
      [] f = "absences" -> AbsenceValue(cell)
      [] OTHER -> Str(CellCode(cell))

C7_Record(s, o, row, end) ==
    \A f \in DataFields :
        IsSet(s[f]) =>
            /\ o.cols[f] > end
            /\ o.cols[f] > 0
            /\ o.cols[f] < Len(row)
            /\ s[f] = FieldOfCell(f, At(row, o.cols[f]))

\* C7: every data field set in a grid record was read from a cell right of
\* the end of the name span, never from the leading row number, and holds
\* what that cell holds.
C7_RightOfName ==
    (FromGrid /\ Returned) =>
        \A k \in 1..Len(students) :
            C7_Record(students[k], origins[k], RowOf(k), SpanEnd(RowOf(k)))

\* C7 witness: a row whose leading number would pass for a score and for an
\* absence count gave a record with no data field.
C7_Witness ==
    /\ FromGrid /\ Returned
    /\ \E k \in 1..Len(students) :
          /\ ValidLeadingIndex(RowOf(k))
          /\ IsScoreCell(RowOf(k)[1])
          /\ IsAbsenceCell(RowOf(k)[1])
          /\ NoFieldSet(students[k])

\* C8: the name of a grid record is the single-space join, in column order,
\* of the run of name-part candidates that starts at the first candidate of
\* its row, a blank being tolerated inside the run only before a candidate;
\* the recorded end of the name is the last column of that run.
C8_NameIsSpan ==
    (FromGrid /\ Returned) =>
        \A k \in 1..Len(students) :
            /\ students[k].name = SpanName(RowOf(k))
            /\ origins[k].nameEndIndex = SpanEnd(RowOf(k))

\* C8 witness: ["1", "Nguyễn", "Văn", "An", "8.5"] gave the name
\* "Nguyễn Văn An" and the score 8.5 in SUBJECT mode.
C8_Witness ==
    /\ FromGrid /\ Returned /\ role = SUBJECT
    /\ \E k \in 1..Len(students) :
          /\ RowOf(k) = <<Cell("1"), Cell("Nguyễn"), Cell("Vån"), Cell("An"), Cell("8.5")>>
          /\ students[k].name = Text("Nguyễn Vån An")
          /\ students[k].subjectScore = Num(85)

SuppressedWords ==
    TextsOf({"TRƯỜNG", "THCS", "THPT", "UBND", "CỘNG HÒA", "ÐỘC LẬP",
             "SỐ LƯỢNG", "TỈ LỆ", "TỶ LỆ", "TỔNG CỘNG", "THỐNG KÊ"})

IsSuppressedName(name) ==
    \/ \E w \in SuppressedWords : includes(toUpperCase(name), w)
    \/ includes(name, Text("%"))

\* C9: in either mode no grid record has a name whose upper-cased form
\* contains a letterhead or footer substring, or that contains '%'.
C9_NoHeaderFooterName ==
    FromGrid => \A k \in 1..Len(students) : ~IsSuppressedName(students[k].name)

\* C9 witness: a row with a valid index and a data field whose name span
\* contains THCS gave no record.
C9_Witness ==
    /\ FromGrid /\ Returned
    /\ \E i \in 0..(rowIndex - 1) :
          /\ includes(toUpperCase(SpanName(rawData[i + 1])), Text("THCS"))
          /\ ValidLeadingIndex(rawData[i + 1])
          /\ YieldsData(rawData[i + 1], SpanEnd(rawData[i + 1]), role)
          /\ ~Emitted(i)

\* C10 as stated: every record of the grid path or of the text path has a
\* non-empty name.
C10_NonEmptyName ==
    \A k \in 1..Len(students) : Len(students[k].name) > 0

\* C11 as stated: in SUBJECT mode every record of the grid path or of the text
\* path that has subjectScore set has 0 <= subjectScore <= 10.
C11_ScoreInRange ==
    role = SUBJECT =>
        \A k \in 1..Len(students) :
            IsSet(students[k].subjectScore) =>
                students[k].subjectScore.v >= 0 /\ students[k].subjectScore.v <= 100

\* Two records with the same name and the same data fields.
SameContent(a, b) ==
    /\ a.name = b.name
    /\ a.subjectScore = b.subjectScore
    /\ a.subjectRating = b.subjectRating
    /\ a.academicResult = b.academicResult
    /\ a.conductRating = b.conductRating
    /\ a.absences = b.absences

\* The positions in ss of the records made from row i.
RecordsOf(ss, i) == {k \in 1..Len(ss) : ss[k].id.idx = i}

\* The earlier call was on a grid of which this call was given row i alone.
Isolated(i) == earlier.isolated = i /\ i >= 0

\* C12: parseExcelData emits at most one record per row and the records follow
\* the order of their rows; and a row given alone, in the same mode, yields a
\* record exactly when it yielded one inside the grid, with the same name and
\* the same data fields.
C12_PerRow ==
    FromGrid =>
        /\ \A k, l \in 1..Len(students) :
              k < l => students[k].id.idx < students[l].id.idx
        /\ \A i \in 0..(Len(earlier.rawData) - 1) :
              Isolated(i) /\ Returned =>
                  /\ Len(students) <= 1
                  /\ (Len(students) = 1) = (RecordsOf(earlier.students, i) # {})
                  /\ \A k \in RecordsOf(earlier.students, i) :
                        SameContent(earlier.students[k], students[1])

\* C12 witness: a grid of two rows gave two records, and its second row given
\* alone gave the second of them again.
C12_Witness ==
    /\ FromGrid /\ Returned /\ Isolated(1)
    /\ Len(earlier.students) = 2
    /\ Len(students) = 1
    /\ SameContent(earlier.students[2], students[1])

\* C13: within one call of parseExcelData or parseStringData the ids of the
\* records, as the strings the code builds, are pairwise distinct.
C13_DistinctIds ==
    \A k, l \in 1..Len(students) :
        k # l => IdString(students[k].id) # IdString(students[l].id)

\* C13 witness: a call returned two records made at the same clock reading,
\* whose ids differ by the index alone.
C13_Witness ==
    /\ Returned
    /\ \E k, l \in 1..Len(students) :
          /\ k < l
          /\ students[k].id.time = students[l].id.time
          /\ IdString(students[k].id) # IdString(students[l].id)

\* The subject labels the list offers (SUBJECTS of StudentList).
SUBJECTS ==
    <<"Toán", "Vån", "LS & ÐL", "KHTN", "Tin học", "Ng.ngữ", "GDCD", "C.nghệ",
      "GDTC", "Nghệ thuật", "NDGDCÐP", "HÐTN&HN", "Khác ...">>

\* The first five rows of the grid at most, their cells written one after the
\* other with a blank between, in lower case.
HeaderText ==
    FlatHeaders(SubSeq(rawData, 1, Smallest({HeaderRowCount, Len(rawData)})))

\* The keyword groups of which a keyword occurs in the header text.
MatchingGroups == {g \in 1..Len(SubjectKeywords) : GroupMatches(HeaderText, g)}

\* detectedSubject is what the header text h with the matching groups m asks
\* for.
DetectedAsGroups(h, m) ==
    /\ m = {} => detectedSubject = Undefined
    /\ m # {} => detectedSubject = Cell(SubjectKeywords[Smallest(m)].label)
    /\ includes(h, Text("toán")) => detectedSubject = Cell("Toán")

\* C14: when parseExcelData returns after reading a grid, detectedSubject is
\* the label of the first keyword group, in the order of the code, with a
\* keyword occurring in the lower-cased text of the first five rows, and
\* undefined when there is none; a header text containing "toán" gives "Toán";
\* and detectedSubject is always one of the labels of SUBJECTS or undefined.
C14_DetectedSubject ==
    FromGrid /\ Returned =>
        /\ OpenOutcome(container, rawData) = "rows" =>
              DetectedAsGroups(HeaderText, MatchingGroups)
        /\ OpenOutcome(container, rawData) # "rows" => detectedSubject = Undefined
        /\ \/ detectedSubject = Undefined
           \/ \E j \in 1..Len(SUBJECTS) : detectedSubject = Cell(SUBJECTS[j])

\* C14 witness: a grid whose header text holds keywords of two groups gave the
\* label of the earlier group, and its rows after the fifth hold a keyword of
\* no consequence.
C14_Witness ==
    /\ FromGrid /\ Returned
    /\ Cardinality(MatchingGroups) >= 2
    /\ detectedSubject = Cell(SubjectKeywords[Smallest(MatchingGroups)].label)

\* C14 witness of the five-row limit: a keyword that occurs only in the sixth
\* row is not seen.
C14_WitnessSixthRow ==
    /\ FromGrid /\ Returned
    /\ Len(rawData) > HeaderRowCount
    /\ includes(FlatHeaders(rawData), Text("tin học"))
    /\ detectedSubject = Undefined

\* The earlier call was on the same grid as this call.
SameGridAgain == earlier # NoCall /\ earlier.isolated = -1

\* C15: parseExcelData run twice on the same grid in the same mode returns two
\* sequences of records of equal length that agree, position by position, on
\* name, subjectScore, subjectRating, academicResult, conductRating and
\* absences, and the same detectedSubject.
C15_SameResultAgain ==
    FromGrid /\ Returned /\ SameGridAgain =>
        /\ Len(students) = Len(earlier.students)
        /\ \A k \in 1..Len(students) : SameContent(earlier.students[k], students[k])
        /\ detectedSubject = earlier.detectedSubject

\* C15 witness: the second run on a grid returned records, the first with an
\* id other than the first run gave it, and a detected subject.
C15_Witness ==
    /\ FromGrid /\ Returned /\ SameGridAgain
    /\ Len(students) >= 1
    /\ students[1].id # earlier.students[1].id
    /\ IsSet(detectedSubject)

\* No row of the grid has a cell that could be part of a name.
NoNamedRow == \A i \in 1..Len(rawData) : NameCols(rawData[i]) = {}

\* C16: parseExcelData never leaves by an exception; it returns no students
\* for a container that cannot be read, a workbook without sheet, an empty
\* sheet and a sheet without a named row; and it returns at most one student
\* per row, a row that misses being merely left out.
C16_NeverRaises ==
    FromGrid =>
        /\ pc # "raised"
        /\ Returned =>
              /\ (container # "sheet" \/ Len(rawData) = 0 \/ NoNamedRow) => students = <<>>
              /\ Len(students) <= Len(rawData)

\* C16 witness: the call on a container that XLSX.read rejects returned with
\* no students.
C16_Witness ==
    /\ FromGrid /\ Returned
    /\ container = "unreadable"
    /\ students = <<>>

\* C16 witness of a row-level miss: of two rows one was left out, the other
\* gave a record.
C16_WitnessRowLeftOut ==
    /\ FromGrid /\ Returned
    /\ Len(rawData) = 2
    /\ Len(students) = 1

\* The data fields of a record that are set.
FieldsSet(s) == {f \in DataFields : IsSet(s[f])}

\* C18: every record of parseStringData, in either mode, has at most one of
\* subjectScore, subjectRating, academicResult, conductRating and absences set.
C18_AtMostOneField ==
    FromText => \A k \in 1..Len(students) : Cardinality(FieldsSet(students[k])) <= 1

\* C18 witness: the text extractor returned, in HOMEROOM mode, a record with
\* academicResult as its one field and a record with no field.
C18_Witness ==
    /\ FromText /\ Returned /\ role = HOMEROOM
    /\ \E k \in 1..Len(students) : FieldsSet(students[k]) = {"academicResult"}
    /\ \E k \in 1..Len(students) : FieldsSet(students[k]) = {}

\* The line of the pasted text from which record k was made.
LineOf(k) == splitLines(text)[students[k].id.idx + 1]

\* C19 as stated: no record of parseStringData comes from a line whose text
\* the grid path suppresses as a header or footer, that is a text holding one
\* of the letterhead or footer words of the name validity filter, or '%'.
C19_SameSuppression ==
    FromText => \A k \in 1..Len(students) : ~IsSuppressedName(trim(LineOf(k)))

(***************************************************************************)
(* processFile of App: an import.  A call runs to its first await in one   *)
(* step and from the await to its end in another, so that calls overlap.   *)
(* The generation loop that the call starts is followed up to its first    *)
(* await; its later steps write comment, isProcessing, isGenerating and    *)
(* the messages only.                                                      *)
(***************************************************************************)
\* The calls of processFile that are followed.
MaxImports == 2

\* The whole of parseExcelData on a grid, its ids made at clock reading t.
RECURSIVE ParseRows(_, _, _, _)
ParseRows(grid, mode, i, t) ==
    IF i >= Len(grid) THEN <<>>
    ELSE IF RowResult(grid[i + 1], mode).emit
    THEN <<NewStudent("student-xls", t, i, RowResult(grid[i + 1], mode))>>
            \o ParseRows(grid, mode, i + 1, t)
    ELSE ParseRows(grid, mode, i + 1, t)

parseExcelData(c, grid, mode, t) ==
    IF AfterOpen(OpenOutcome(c, grid)) = "rows"
    THEN [students |-> ParseRows(grid, mode, 0, t),
          detectedSubject |-> detectSubject(slice(grid, 0, HeaderRowCount))]
    ELSE [students |-> <<>>, detectedSubject |-> Undefined]

\* The files given to processFile: spreadsheets (one that XLSX.read rejects,
\* one whose bytes cannot be had, a sheet of two students, a sheet of one, a
\* sheet of headings only), an image, and a file of another type.
ExcelFile(c, grid) == [type |-> "excel", bytes |-> "resolve", container |-> c, grid |-> grid]

Files ==
    {ExcelFile("unreadable", <<>>),
     [type |-> "excel", bytes |-> "reject", container |-> "sheet", grid |-> <<>>],
     ExcelFile("sheet", <<<<Cell("STT"), Cell("Họ và tên"), Cell("Vån")>>,
                          <<Cell("1"), Cell("Lê An"), Cell("8.5")>>,
                          <<Cell("2"), Cell("Trần Thị Bình"), Cell("K")>>>>),
     ExcelFile("sheet", <<<<Cell("1"), Cell("Phạm Thu"), Cell("T")>>>>),
     ExcelFile("sheet", <<<<Cell("STT"), Cell("Họ và tên")>>>>),
     [type |-> "image", bytes |-> "resolve", container |-> "none", grid |-> <<>>],
     [type |-> "text", bytes |-> "resolve", container |-> "none", grid |-> <<>>]}

\* The files of the imports that are followed with the generation: a sheet
\* of six students, which makes two groups, and a sheet of one.
GenFiles ==
    {ExcelFile("sheet", <<<<Cell("1"), Cell("Lê An"), Cell("8")>>,
                          <<Cell("2"), Cell("Lê Ba"), Cell("7")>>,
                          <<Cell("3"), Cell("Lê Ca"), Cell("6")>>,
                          <<Cell("4"), Cell("Lê Da"), Cell("9")>>,
                          <<Cell("5"), Cell("Lê Ha"), Cell("5")>>,
                          <<Cell("6"), Cell("Lê La"), Cell("K")>>>>),
     ExcelFile("sheet", <<<<Cell("1"), Cell("Phạm Thu"), Cell("T")>>>>)}

\* parseExcelData on each of the files, in each mode and at each clock
\* reading.
ParsedTable ==
    { [file |-> f, mode |-> mode, t |-> t,
       result |-> parseExcelData(f.container, f.grid, mode, t)] :
      f \in {g \in Files \cup GenFiles : g.type = "excel"},
      mode \in {SUBJECT, HOMEROOM}, t \in 0..MaxNow }

Parsed(f, mode, t) ==
    (CHOOSE r \in ParsedTable : r.file = f /\ r.mode = mode /\ r.t = t).result

\* What extractDataFromMedia comes to: a list of students, an empty list, a
\* failure with a message, or the failure for want of an API key.
MediaOutcomes == {"students", "none", "error", "nokey"}

MediaResult(outcome, t) ==
    IF outcome = "students"
    THEN [students |->
            <<[id |-> [kind |-> "student-img", time |-> t, idx |-> 0],
               name |-> Text("Học sinh 1"), comment |-> <<>>, isProcessing |-> FALSE,
               subjectScore |-> Num(80), subjectRating |-> Undefined,
               academicResult |-> Undefined, conductRating |-> Undefined,
               absences |-> Undefined]>>,
          detectedSubject |-> Undefined]
    ELSE [students |-> <<>>, detectedSubject |-> Undefined]

\* The messages of processFile.
NoValidData == Cell("Không tìm thấy dữ liệu hợp lệ trong file Excel.")
ExcelReadError == Cell("Lỗi khi ðọc file Excel.")
NoStudentFound == Cell("AI không tìm thấy thông tin học sinh. Hãy thử ảnh rõ nét hơn.")
MediaError == Cell("Lỗi khi AI xử lý file.")
Unsupported == Cell("Ðịnh dạng file không hỗ trợ. Vui lòng dùng Excel, PDF hoặc Ảnh.")

\* setStudents(prev => prev.map(s => ({ ...s, isProcessing: true })))
MarkProcessing(ss) == [k \in 1..Len(ss) |-> [ss[k] EXCEPT !.isProcessing = TRUE]]

\* The calls of executeGeneration that are followed.
MaxBatches == 2

\* const chunkSize = 5;  const delayTime = 4;
chunkSize == 5
delayTime == 4

\* Math.min(100, Math.round((i / n) * 100))
Progress(i, n) == Smallest({100, (200 * i + n) \div (2 * n)})

\* The status line of the group that starts at i, and of a rest with t
\* seconds to go.
GroupStatus(i, n) ==
    [kind |-> "group", from |-> i + 1, to |-> Smallest({i + chunkSize, n}),
     progress |-> Progress(i, n)]

RestStatus(t, i, n) ==
    [kind |-> "rest", from |-> t, to |-> 0, progress |-> Progress(i, n)]

\* The ids of a list of students.
Ids(ss) == [k \in 1..Len(ss) |-> ss[k].id]

\* executeGeneration(targetStudents, currentSubject) up to its first await,
\* called with the working set being base: nothing for no target; otherwise
\* isGenerating, no error message, every record of the working set marked,
\* and the request for the first group under way.
ExecuteGeneration(base, targets, subject, mode) ==
    IF Len(targets) = 0
    THEN /\ appStudents' = base
         /\ UNCHANGED <<isGenerating, errorMsg, statusMsg, batches>>
    ELSE /\ appStudents' = MarkProcessing(base)
         /\ isGenerating' = TRUE
         /\ errorMsg' = Undefined
         /\ statusMsg' = GroupStatus(0, Len(targets))
         /\ batches' = Append(batches,
                [targets |-> Ids(targets), role |-> mode, subject |-> subject,
                 i |-> 0, pc |-> "request", t |-> 0,
                 requests |-> 1, rested |-> 0, failed |-> FALSE, got |-> {}])

\* The end of processFile for call i: with students, they become the working
\* set, the detected subject is taken over and executeGeneration runs to its
\* first await; without, the working set stays as it is and the message is
\* the one of the branch.
Finish(i, result, msg) ==
    /\ imports' = [imports EXCEPT ![i].pc = "done", ![i].got = Len(result.students)]
    /\ IF Len(result.students) > 0
       THEN /\ Len(batches) < MaxBatches
            /\ appFrom' = [k \in 1..Len(result.students) |-> i]
            /\ subjectName' = IF IsSet(result.detectedSubject)
                              THEN result.detectedSubject ELSE subjectName
            /\ ExecuteGeneration(result.students, result.students,
                                 IF IsSet(result.detectedSubject)
                                 THEN result.detectedSubject ELSE subjectName,
                                 imports[i].role)
       ELSE /\ errorMsg' = msg
            /\ UNCHANGED <<appStudents, appFrom, subjectName, isGenerating,
                           statusMsg, batches>>

parserVars ==
    <<call, container, rawData, text, pc, rowIndex, students, detectedSubject,
      origins, earlier>>

\* processFile(file) up to its first await, for a file of the given ones: the
\* message and the working set are cleared; a spreadsheet waits for
\* file.arrayBuffer(), an image for the extraction, and a file of another
\* type ends the call with a message.
ProcessFileOf(files) ==
    /\ Len(imports) < MaxImports
    /\ \E file \in files :
          LET i == Len(imports) + 1
              started == Append(imports, [file |-> file, role |-> role, pc |-> "await", got |-> 0])
          IN  IF file.type \in {"excel", "image"}
              THEN /\ imports' = started
                   /\ errorMsg' = Undefined
                   /\ appStudents' = <<>>
                   /\ appFrom' = <<>>
                   /\ isExtracting' = (isExtracting \/ file.type = "image")
                   /\ UNCHANGED <<subjectName, isGenerating>>
              ELSE /\ imports' = [started EXCEPT ![i].pc = "done"]
                   /\ errorMsg' = Unsupported
                   /\ appStudents' = <<>>
                   /\ appFrom' = <<>>
                   /\ UNCHANGED <<subjectName, isGenerating, isExtracting>>
    /\ UNCHANGED <<role, now>>
    /\ UNCHANGED <<parserVars, genVars, retry>>

ProcessFile == ProcessFileOf(Files)

\* The Excel branch after the await: the catch clause when arrayBuffer()
\* rejected; otherwise parseExcelData with the role of the call, and the
\* message of an empty result.
ExcelRead ==
    /\ \E i \in 1..Len(imports) :
          /\ imports[i].pc = "await"
          /\ imports[i].file.type = "excel"
          /\ IF imports[i].file.bytes = "reject"
             THEN /\ Finish(i, [students |-> <<>>, detectedSubject |-> Undefined],
                            ExcelReadError)
                  /\ UNCHANGED now
             ELSE \E t \in {now, now + 1} \cap (0..MaxNow) :
                     /\ now' = t
                     /\ Finish(i, Parsed(imports[i].file, imports[i].role, t),
                               IF Len(Parsed(imports[i].file, imports[i].role, t).students) = 0
                               THEN NoValidData ELSE errorMsg)
    /\ UNCHANGED <<role, isExtracting>>
    /\ UNCHANGED <<singles, showKeyModal, deleted>>
    /\ UNCHANGED <<parserVars, retry>>

\* The image branch after the extraction has settled.
MediaRead ==
    /\ \E i \in 1..Len(imports) :
          /\ imports[i].pc = "await"
          /\ imports[i].file.type = "image"
          /\ \E outcome \in MediaOutcomes, t \in {now, now + 1} \cap (0..MaxNow) :
                /\ now' = t
                /\ Finish(i, MediaResult(outcome, t),
                          CASE outcome = "none" -> NoStudentFound
                            [] outcome = "error" -> MediaError
                            [] OTHER -> errorMsg)
                /\ showKeyModal' = (showKeyModal \/ outcome = "nokey")
    /\ isExtracting' = FALSE
    /\ UNCHANGED role
    /\ UNCHANGED <<singles, deleted>>
    /\ UNCHANGED <<parserVars, retry>>

\* The role buttons: setRole(r); setStudents([]).
SetRole ==
    /\ \E r \in {SUBJECT, HOMEROOM} : role' = r
    /\ appStudents' = <<>>
    /\ appFrom' = <<>>
    /\ UNCHANGED <<errorMsg, subjectName, isGenerating, isExtracting, imports, now>>
    /\ UNCHANGED <<parserVars, genVars, retry>>

InitApp ==
    /\ call = "processFile"
    /\ container = "none"
    /\ rawData = <<>>
    /\ text = <<>>
    /\ pc = "app"
    /\ rowIndex = 0
    /\ students = <<>>
    /\ detectedSubject = Undefined
    /\ origins = <<>>
    /\ earlier = NoCall
    /\ now = 0
    /\ role = SUBJECT
    /\ AppMounted
    /\ imports = <<>>
    /\ NoGeneration
    /\ retry = NoRetry

NextApp == ProcessFile \/ ExcelRead \/ MediaRead \/ SetRole

SpecApp == InitApp /\ [][NextApp]_vars

\* Call i of processFile ends in this step.
Ends(i) == imports[i].pc = "await" /\ imports'[i].pc = "done"

\* C17 as stated: the step that ends the import of a spreadsheet file which
\* XLSX.read cannot parse leaves the read-error message "Lỗi khi ðọc file
\* Excel." as errorMsg.
C17_ReadErrorReported ==
    [][\A i \in 1..Len(imports) :
          (Ends(i) /\ imports[i].file.type = "excel"
                   /\ imports[i].file.bytes = "resolve"
                   /\ imports[i].file.container = "unreadable")
              => errorMsg' = ExcelReadError]_vars

\* C20 as stated: after every step the working set is empty or holds the
\* records of one import, all of them; and the step that ends an import which
\* yielded no record leaves the working set empty.
C20_ReplaceNeverMerge ==
    [][/\ \A k \in 1..Len(appFrom') :
             /\ appFrom'[k] = appFrom'[1]
             /\ Len(appStudents') = imports'[appFrom'[1]].got
       /\ \A i \in 1..Len(imports) :
             (Ends(i) /\ imports'[i].got = 0) => appStudents' = <<>>]_vars

\* The role under which the records of the working set were extracted.
RoleOfWorkingSet == imports[appFrom[1]].role

\* C30 as stated: whenever the working set is not empty, its records were
\* extracted under the role that is selected now.
C30_RoleConsistent ==
    Len(appStudents) > 0 => RoleOfWorkingSet = role

(***************************************************************************)
(* callWithRetry: one call with the default retries and baseDelay.  fn is  *)
(* the request to the model; each await of it settles with a result or     *)
(* with an error that carries a message.                                   *)
(***************************************************************************)
\* The defaults of the parameters.
retries == 3
baseDelay == 3000

\* How a call of fn settles: with a result, or with an error of one of these
\* messages (the empty one stands for an error without message).
ErrorMessages ==
    TextsOf({"got status: 429 Too Many Requests", "503 Service Unavailable",
             "The model is overloaded", "You exceeded your current quota",
             "MISSING_API_KEY", "No response from AI", "RESOURCE_EXHAUSTED", ""})

FnOutcomes == {[ok |-> TRUE, message |-> <<>>]} \cup {[ok |-> FALSE, message |-> m] : m \in ErrorMessages}

\* Every error is taken for a transient one.
isTransientAlways(msg) == TRUE

\* const isTransient = msg.includes("429") || ...
isTransient(msg) ==
    \/ includes(msg, Text("429"))
    \/ includes(msg, Text("503"))
    \/ includes(msg, Text("overloaded"))
    \/ includes(msg, Text("quota"))

\* callWithRetry(fn): the loop is entered with i = 0 and fn is called.
RetryCall ==
    /\ retry = NoRetry
    /\ call = "callWithRetry"
    /\ retry' = IF 0 < retries
                THEN [retry EXCEPT !.pc = "fn"]
                ELSE [retry EXCEPT !.pc = "thrown"]
    /\ UNCHANGED <<call, role, container, rawData, text, pc, rowIndex, students,
                   detectedSubject, origins, now, earlier, appVars, genVars>>

\* await fn() settles: a result is returned; an error that is not transient,
\* or the error of the last attempt, is thrown again; after another error the
\* timer of baseDelay * (i + 1) is awaited.
RetrySettle ==
    /\ retry.pc = "fn"
    /\ \E o \in FnOutcomes :
          retry' =
             [retry EXCEPT
                !.outcomes = Append(@, o),
                !.pc = IF o.ok THEN "returned"
                       ELSE IF ~isTransient(o.message) \/ retry.i = retries - 1
                       THEN "thrown"
                       ELSE "wait",
                !.waits = IF ~o.ok /\ isTransient(o.message) /\ retry.i # retries - 1
                          THEN Append(@, baseDelay * (retry.i + 1))
                          ELSE @]
    /\ UNCHANGED <<call, role, container, rawData, text, pc, rowIndex, students,
                   detectedSubject, origins, now, earlier, appVars, genVars>>

\* The timer fires: i++, and fn is called again if i < retries; otherwise the
\* loop is left and Error("Retry failed") is thrown.
RetryTimer ==
    /\ retry.pc = "wait"
    /\ retry' = [retry EXCEPT !.i = @ + 1,
                              !.pc = IF retry.i + 1 < retries THEN "fn" ELSE "thrown"]
    /\ UNCHANGED <<call, role, container, rawData, text, pc, rowIndex, students,
                   detectedSubject, origins, now, earlier, appVars, genVars>>

InitRetry ==
    /\ call = "callWithRetry"
    /\ container = "none"
    /\ rawData = <<>>
    /\ text = <<>>
    /\ pc = "retry"
    /\ rowIndex = 0
    /\ students = <<>>
    /\ detectedSubject = Undefined
    /\ origins = <<>>
    /\ earlier = NoCall
    /\ now = 0
    /\ role = SUBJECT
    /\ AppMounted
    /\ imports = <<>>
    /\ NoGeneration
    /\ retry = NoRetry

NextRetry == RetryCall \/ RetrySettle \/ RetryTimer

\* Every await of callWithRetry settles: the request ends with a response or
\* an error, and a timer fires.
SpecRetry == InitRetry /\ [][NextRetry]_vars /\ WF_vars(NextRetry)

\* The calls of fn made so far: the settled ones and the one awaited.
FnCalls == Len(retry.outcomes) + (IF retry.pc = "fn" THEN 1 ELSE 0)

\* The call of callWithRetry has ended, with a result or with an error.
RetryEnded == retry.pc \in {"returned", "thrown"}

RetrySafe ==
    /\ FnCalls <= 3
    /\ \A k \in 1..Len(retry.outcomes) :
          \* fn was called again only after a transient error
          /\ k < FnCalls =>
                /\ ~retry.outcomes[k].ok
                /\ \E w \in TextsOf({"429", "503", "overloaded", "quota"}) :
                      includes(retry.outcomes[k].message, w)
          \* before the call after the k-th, baseDelay * k was waited
          /\ k < FnCalls => Len(retry.waits) >= k /\ retry.waits[k] = 3000 * k
    /\ \A k \in 2..Len(retry.waits) : retry.waits[k] > retry.waits[k - 1]
    /\ retry.pc = "returned" =>
          /\ retry.outcomes[Len(retry.outcomes)].ok
          /\ \A k \in 1..(Len(retry.outcomes) - 1) : ~retry.outcomes[k].ok
    /\ retry.pc = "thrown" =>
          /\ Len(retry.outcomes) >= 1
          /\ ~retry.outcomes[Len(retry.outcomes)].ok
    /\ (Len(retry.outcomes) = 3 /\ ~retry.outcomes[3].ok) => retry.pc = "thrown"
    /\ \A k \in 1..Len(retry.outcomes) :
          (/\ ~retry.outcomes[k].ok
           /\ \A w \in TextsOf({"429", "503", "overloaded", "quota"}) :
                 ~includes(retry.outcomes[k].message, w))
              => retry.pc = "thrown" /\ k = Len(retry.outcomes)

MaxSingles == 1
MaxDeletes == 1

\* The operations that are followed in one run of the application with
\* generation: the imports, the calls of executeGeneration and of
\* handleRegenerateSingle, the deletes, and the switch to the homeroom role.
MaxStarted == 4

Started ==
    Len(imports) + Len(batches) + Len(singles) + Cardinality(deleted)
        + (IF role = HOMEROOM THEN 1 ELSE 0)

\* The user can begin one more operation.
MayStart == Started < MaxStarted

\* A slice that begins with the last id of the group before.
ChunkOverlapping(targets, i) ==
    slice(targets, IF i > 0 THEN i - 1 ELSE 0, i + chunkSize)

\* targetStudents.slice(i, i + chunkSize), as ids.
Chunk(targets, i) == slice(targets, i, i + chunkSize)

\* The elements of a sequence.
Range(seq) == {seq[k] : k \in 1..Len(seq)}

\* No rest after any group.
RestFollowsNever(i, n) == FALSE

\* if (i + chunkSize < targetStudents.length): a rest follows the group.
RestFollows(i, n) == i + chunkSize < n

\* The mappings that a request for the ids of chunk may return, the working
\* set holding the ids of all: every id of the chunk, none, and every id of
\* the chunk with an id that was not asked for.
Responses(chunk, all) ==
    {Range(chunk), {}}
        \cup {Range(chunk) \cup {id} : id \in {all[k] : k \in 1..Smallest({1, Len(all)})} \ Range(chunk)}

\* The comment that the request for the group at i of batch b returns, and
\* the one that single regeneration k returns.
BatchComment(b, i) == Text("b") \o NatToString(b) \o Text("g") \o NatToString(i)
SingleComment(k) == Text("s") \o NatToString(k)

\* The setStudents of a response that filters the list, leaving out the
\* records of the chunk that the mapping has not.
ApplyResponseDropUnmatched(prev, chunk, m, c) ==
    LET kept == SelectSeq(prev, LAMBDA s : s.id \in m \/ s.id \notin Range(chunk))
    IN  [k \in 1..Len(kept) |->
            IF kept[k].id \in m
            THEN [kept[k] EXCEPT !.comment = c, !.isProcessing = FALSE]
            ELSE kept[k]]

\* The setStudents of a response without the branch for the ids of the chunk
\* that the mapping has not.
ApplyResponseMatchedOnly(prev, chunk, m, c) ==
    [k \in 1..Len(prev) |->
        IF prev[k].id \in m
        THEN [prev[k] EXCEPT !.comment = c, !.isProcessing = FALSE]
        ELSE prev[k]]

\* The setStudents of a response that empties the comment of an id of the
\* chunk that the mapping has not.
ApplyResponseBlank(prev, chunk, m, c) ==
    [k \in 1..Len(prev) |->
        IF prev[k].id \in m
        THEN [prev[k] EXCEPT !.comment = c, !.isProcessing = FALSE]
        ELSE IF prev[k].id \in Range(chunk)
        THEN [prev[k] EXCEPT !.comment = <<>>, !.isProcessing = FALSE]
        ELSE prev[k]]

\* The setStudents of a response: the comment for an id of the mapping, the
\* flag cleared for it and for every id of the chunk.
ApplyResponse(prev, chunk, m, c) ==
    [k \in 1..Len(prev) |->
        IF prev[k].id \in m
        THEN [prev[k] EXCEPT !.comment = c, !.isProcessing = FALSE]
        ELSE IF prev[k].id \in Range(chunk)
        THEN [prev[k] EXCEPT !.isProcessing = FALSE]
        ELSE prev[k]]

\* The catch clause leaving the flags as they are.
ClearProcessingNone(prev) == prev

\* setStudents(prev => prev.map(s => ({ ...s, isProcessing: false })))
ClearProcessing(prev) == [k \in 1..Len(prev) |-> [prev[k] EXCEPT !.isProcessing = FALSE]]

\* updateStudent(id, updates) for isProcessing, and for a comment with it.
SetProcessing(prev, id, flag) ==
    [k \in 1..Len(prev) |->
        IF prev[k].id = id THEN [prev[k] EXCEPT !.isProcessing = flag] ELSE prev[k]]

SetComment(prev, id, c) ==
    [k \in 1..Len(prev) |->
        IF prev[k].id = id THEN [prev[k] EXCEPT !.comment = c, !.isProcessing = FALSE]
        ELSE prev[k]]

\* The errors of a request, by message: no key, the quota used up, the
\* network down.
GenErrors ==
    TextsOf({"MISSING_API_KEY", "got status: 429 Too Many Requests", "Failed to fetch"})

\* The messages of the catch clauses (the warning sign that two of them
\* start with is left out).
KeyNeeded == Cell("Vui lòng nhập API Key ðể tiếp tục.")
QuotaUsedUp == Cell("Ðã hết lượt sử dụng trong phút này. Vui lòng ðợi 1-2 phút rồi thử lại.")
ConnectionError == Cell("Lỗi kết nối AI. Kiểm tra mạng hoặc thử lại sau.")
SingleQuotaUsedUp == Cell("Hết lượt sử dụng. Vui lòng ðợi một lát.")
SingleError == Cell("Không thể tạo lại nhận xét.")

\* The message of the catch clause of executeGeneration.
BatchErrorMsg(msg) ==
    IF msg = Text("MISSING_API_KEY") THEN KeyNeeded
    ELSE IF \/ includes(msg, Text("429")) \/ includes(msg, Text("quota"))
            \/ includes(msg, Text("RESOURCE_EXHAUSTED"))
    THEN QuotaUsedUp
    ELSE ConnectionError

\* The message that the catch clause of handleRegenerateSingle leaves.
SingleErrorMsg(msg) ==
    IF msg = Text("MISSING_API_KEY") THEN errorMsg
    ELSE IF includes(msg, Text("429")) \/ includes(msg, Text("quota"))
    THEN SingleQuotaUsedUp
    ELSE SingleError

\* The subjects chosen in the list.
ChosenSubjects == {Cell("Vån")}

\* handleRegenerateAll: the button (disabled while isGenerating) or a choice
\* in the subject list (shown in SUBJECT mode), the list being shown.
RegenerateAll ==
    /\ Len(appStudents) > 0
    /\ Len(batches) < MaxBatches
    /\ MayStart
    /\ \/ /\ ~isGenerating
          /\ ExecuteGeneration(appStudents, appStudents, subjectName, role)
          /\ UNCHANGED subjectName
       \/ /\ role = SUBJECT
          /\ \E subj \in ChosenSubjects :
                /\ subjectName' = subj
                /\ ExecuteGeneration(appStudents, appStudents, subj, role)
    /\ UNCHANGED <<appFrom, isExtracting, imports, role, now>>
    /\ UNCHANGED <<singles, showKeyModal, deleted>>
    /\ UNCHANGED <<parserVars, retry>>

\* The request of batch b for its group settles with a mapping: it is applied;
\* then the rest begins, or, after the last group, the loop and the call end.
BatchResponse ==
    /\ \E b \in 1..Len(batches) :
          /\ batches[b].pc = "request"
          /\ \E m \in Responses(Chunk(batches[b].targets, batches[b].i), Ids(appStudents)) :
                /\ appStudents' =
                      ApplyResponse(appStudents, Chunk(batches[b].targets, batches[b].i), m,
                                    BatchComment(b, batches[b].i))
                /\ IF RestFollows(batches[b].i, Len(batches[b].targets))
                   THEN /\ batches' = [batches EXCEPT ![b].pc = "rest", ![b].t = delayTime,
                                                      ![b].rested = 0, ![b].got = m]
                        /\ statusMsg' = RestStatus(delayTime, batches[b].i,
                                                   Len(batches[b].targets))
                        /\ UNCHANGED isGenerating
                   ELSE /\ batches' = [batches EXCEPT ![b].pc = "done", ![b].got = m]
                        /\ statusMsg' = NoStatus
                        /\ isGenerating' = FALSE
    /\ UNCHANGED <<appFrom, errorMsg, subjectName, isExtracting, imports, role, now>>
    /\ UNCHANGED <<singles, showKeyModal, deleted>>
    /\ UNCHANGED <<parserVars, retry>>

\* A second of the rest of batch b has passed: the next second begins, or the
\* request for the next group is made.
BatchTick ==
    /\ \E b \in 1..Len(batches) :
          /\ batches[b].pc = "rest"
          /\ IF batches[b].t > 1
             THEN /\ batches' = [batches EXCEPT ![b].t = @ - 1, ![b].rested = @ + 1]
                  /\ statusMsg' = RestStatus(batches[b].t - 1, batches[b].i,
                                             Len(batches[b].targets))
             ELSE /\ batches' = [batches EXCEPT ![b].t = 0, ![b].rested = @ + 1,
                                                ![b].i = @ + chunkSize,
                                                ![b].pc = "request",
                                                ![b].requests = @ + 1]
                  /\ statusMsg' = GroupStatus(batches[b].i + chunkSize,
                                              Len(batches[b].targets))
    /\ UNCHANGED appVars
    /\ UNCHANGED <<role, now>>
    /\ UNCHANGED <<singles, showKeyModal, deleted>>
    /\ UNCHANGED <<parserVars, retry>>

\* The request of batch b fails: the catch clause and the finally clause.
BatchFailure ==
    /\ \E b \in 1..Len(batches) :
          /\ batches[b].pc = "request"
          /\ batches' = [batches EXCEPT ![b].pc = "done", ![b].failed = TRUE]
          /\ \E msg \in GenErrors :
                /\ errorMsg' = BatchErrorMsg(msg)
                /\ showKeyModal' = (showKeyModal \/ msg = Text("MISSING_API_KEY"))
    /\ appStudents' = ClearProcessing(appStudents)
    /\ statusMsg' = NoStatus
    /\ isGenerating' = FALSE
    /\ UNCHANGED <<appFrom, subjectName, isExtracting, imports, role, now>>
    /\ UNCHANGED <<singles, deleted>>
    /\ UNCHANGED <<parserVars, retry>>

\* The rows of the list whose buttons are used: the first and the last.
RowsUsed == {k \in 1..Len(appStudents) : k = 1 \/ k = Len(appStudents)}

\* handleRegenerateSingle(student) up to its await.
SingleStart ==
    /\ Len(singles) < MaxSingles
    /\ MayStart
    /\ \E k \in RowsUsed :
          /\ appStudents' = SetProcessing(appStudents, appStudents[k].id, TRUE)
          /\ singles' = Append(singles, [id |-> appStudents[k].id, pc |-> "request",
                                            got |-> {}])
    /\ UNCHANGED <<appFrom, errorMsg, subjectName, isGenerating, isExtracting, imports>>
    /\ UNCHANGED <<role, now>>
    /\ UNCHANGED <<batches, statusMsg, showKeyModal, deleted>>
    /\ UNCHANGED <<parserVars, retry>>

\* The request of single regeneration k settles with a mapping that has the
\* id or has it not.
SingleResponse ==
    /\ \E k \in 1..Len(singles) :
          /\ singles[k].pc = "request"
          /\ \E has \in BOOLEAN :
                /\ singles' = [singles EXCEPT ![k].pc = "done",
                                              ![k].got = IF has THEN {singles[k].id} ELSE {}]
                /\ appStudents' =
                      IF has THEN SetComment(appStudents, singles[k].id, SingleComment(k))
                      ELSE SetProcessing(appStudents, singles[k].id, FALSE)
    /\ UNCHANGED <<appFrom, errorMsg, subjectName, isGenerating, isExtracting, imports>>
    /\ UNCHANGED <<role, now>>
    /\ UNCHANGED <<batches, statusMsg, showKeyModal, deleted>>
    /\ UNCHANGED <<parserVars, retry>>

\* The request of single regeneration k fails: the catch clause.
SingleFailure ==
    /\ \E k \in 1..Len(singles) :
          /\ singles[k].pc = "request"
          /\ singles' = [singles EXCEPT ![k].pc = "done"]
          /\ appStudents' = SetProcessing(appStudents, singles[k].id, FALSE)
          /\ \E msg \in GenErrors :
                /\ errorMsg' = SingleErrorMsg(msg)
                /\ showKeyModal' = (showKeyModal \/ msg = Text("MISSING_API_KEY"))
    /\ UNCHANGED <<appFrom, subjectName, isGenerating, isExtracting, imports>>
    /\ UNCHANGED <<role, now>>
    /\ UNCHANGED <<batches, statusMsg, deleted>>
    /\ UNCHANGED <<parserVars, retry>>

\* deleteStudent(id) for a record of the list.
DeleteStudent ==
    /\ Cardinality(deleted) < MaxDeletes
    /\ MayStart
    /\ \E k \in RowsUsed :
          /\ appStudents' = SelectSeq(appStudents, LAMBDA s : s.id # appStudents[k].id)
          /\ appFrom' = [j \in 1..(Len(appStudents) - 1) |-> appFrom[1]]
          /\ deleted' = deleted \cup {appStudents[k].id}
    /\ UNCHANGED <<errorMsg, subjectName, isGenerating, isExtracting, imports>>
    /\ UNCHANGED <<role, now>>
    /\ UNCHANGED <<batches, singles, statusMsg, showKeyModal>>
    /\ UNCHANGED <<parserVars, retry>>

\* processFile on one of the files that are followed with the generation.
ProcessFileGen == MayStart /\ ProcessFileOf(GenFiles)

\* The homeroom button pressed in the subject role.
SwitchToHomeroom == MayStart /\ role = SUBJECT /\ SetRole /\ role' = HOMEROOM

NextGen ==
    \/ ProcessFileGen \/ ExcelRead \/ SwitchToHomeroom
    \/ RegenerateAll \/ BatchResponse \/ BatchTick \/ BatchFailure
    \/ SingleStart \/ SingleResponse \/ SingleFailure \/ DeleteStudent

SpecGen == InitApp /\ [][NextGen]_vars


(***************************************************************************)
(* Claims about the generation                                             *)
(***************************************************************************)
\* Batch b has been started and its loop has not ended.
InFlight(b) == b \in 1..Len(batches) /\ batches[b].pc # "done"

\* C27: isGenerating is true in every state in which at least one batch
\* generation loop is still in flight, a second batch started before the
\* first has ended included.
C27_GeneratingWhileInFlight == (\E b \in 1..Len(batches) : InFlight(b)) => isGenerating

\* The step is the response for the group of batch b being applied.
ResponseStep(b) ==
    /\ b \in 1..Len(batches)
    /\ batches[b].pc = "request"
    /\ batches'[b].pc # "request"
    /\ ~batches'[b].failed

\* The ids of the group that batch b is asking for.
GroupOf(b) == Range(Chunk(batches[b].targets, batches[b].i))

\* C28: applying the response for one group changes only records whose id
\* belongs to that group; a record outside the group keeps its comment and
\* its isProcessing flag, whatever ids the response mapping holds.
C28_OnlyGroupChanged ==
    [][\A b \in 1..Len(batches) :
          ResponseStep(b) =>
              /\ Len(appStudents') = Len(appStudents)
              /\ \A k \in 1..Len(appStudents) :
                    appStudents[k].id \notin GroupOf(b) =>
                        /\ appStudents'[k].comment = appStudents[k].comment
                        /\ appStudents'[k].isProcessing = appStudents[k].isProcessing]_vars

\* The step is the request of batch b failing.
FailureStep(b) ==
    /\ b \in 1..Len(batches)
    /\ ~batches[b].failed
    /\ batches'[b].failed

\* C21: when the request for a group fails in executeGeneration, no request
\* is made for a later group (the batch has ended and stays as it is), every
\* record keeps the comment it has, those of the groups already applied
\* included, and after the step no record of the working set is processing
\* and isGenerating is false.
C21_FailureEndsBatch ==
    [][\A b \in 1..Len(batches) :
          /\ batches[b].failed => batches'[b] = batches[b]
          /\ FailureStep(b) =>
                /\ batches'[b].pc = "done"
                /\ batches'[b].requests = batches[b].requests
                /\ Len(appStudents') = Len(appStudents)
                /\ \A k \in 1..Len(appStudents) :
                      /\ appStudents'[k].comment = appStudents[k].comment
                      /\ ~appStudents'[k].isProcessing
                /\ ~isGenerating']_vars

\* A batch failed at its second group, the list holding a record with the
\* comment of its first group and a record of the second group.
C21_Witness ==
    \E b \in 1..Len(batches) :
        /\ batches[b].failed
        /\ batches[b].i = chunkSize
        /\ batches[b].requests = 2
        /\ \E k \in 1..Len(appStudents) : appStudents[k].comment = BatchComment(b, 0)
        /\ \E k \in 1..Len(appStudents) :
              /\ appStudents[k].id \in GroupOf(b)
              /\ ~appStudents[k].isProcessing

\* The step is single regeneration k ending, with a response or a failure.
SingleEndStep(k) ==
    /\ k \in 1..Len(singles)
    /\ singles[k].pc = "request"
    /\ singles'[k].pc = "done"

\* The record at k is as it was, its flag cleared.
OnlyFlagCleared(k) == appStudents'[k] = [appStudents[k] EXCEPT !.isProcessing = FALSE]

\* C22: when the response for a group is applied, of a batch or of a single
\* regeneration, every record of that group whose id is absent from the
\* returned mapping keeps its previous comment; only its isProcessing flag
\* is cleared.
C22_UnmatchedKeepComment ==
    [][/\ \A b \in 1..Len(batches) :
             ResponseStep(b) =>
                 /\ Len(appStudents') = Len(appStudents)
                 /\ \A k \in 1..Len(appStudents) :
                       (appStudents[k].id \in GroupOf(b) \ batches'[b].got)
                           => OnlyFlagCleared(k)
       /\ \A j \in 1..Len(singles) :
             SingleEndStep(j) =>
                 /\ Len(appStudents') = Len(appStudents)
                 /\ \A k \in 1..Len(appStudents) :
                       (appStudents[k].id = singles[j].id /\ singles'[j].got = {})
                           => OnlyFlagCleared(k)]_vars

\* A batch has ended with a mapping that left out an id of its group, and the
\* record of that id still has the comment that an earlier response gave it.
C22_Witness ==
    \E b \in 1..Len(batches) :
        /\ batches[b].pc = "done"
        /\ ~batches[b].failed
        /\ \E k \in 1..Len(appStudents) :
              /\ appStudents[k].id \in Range(Chunk(batches[b].targets, batches[b].i))
              /\ appStudents[k].id \notin batches[b].got
              /\ appStudents[k].comment # <<>>
              /\ ~appStudents[k].isProcessing

\* A single regeneration has ended without a comment for its record, which
\* still has the comment of a batch.
C22_WitnessSingle ==
    \E j \in 1..Len(singles) :
        /\ singles[j].pc = "done"
        /\ singles[j].got = {}
        /\ \E k \in 1..Len(appStudents) :
              /\ appStudents[k].id = singles[j].id
              /\ appStudents[k].comment # <<>>
              /\ ~appStudents[k].isProcessing

\* No call of executeGeneration and none of handleRegenerateSingle is in
\* flight.
NoGenerationInFlight ==
    /\ \A b \in 1..Len(batches) : batches[b].pc = "done"
    /\ \A j \in 1..Len(singles) : singles[j].pc = "done"

\* C23: in every reachable state in which no generation operation (batch or
\* single regeneration) is in flight, no record of the working set has
\* isProcessing = true.
C23_ProcessingOnlyInFlight ==
    NoGenerationInFlight => \A k \in 1..Len(appStudents) : ~appStudents[k].isProcessing


\* Two batches and a single regeneration have ended, one batch by a response
\* that left ids out and one by a failure, and the list is not empty.
C23_Witness ==
    /\ NoGenerationInFlight
    /\ Len(appStudents) > 0
    /\ Len(singles) > 0
    /\ \E b \in 1..Len(batches) : ~batches[b].failed /\ batches[b].got = {}
    /\ \E b \in 1..Len(batches) : batches[b].failed

\* The groups of n targets one after another, from the group at i on.
RECURSIVE GroupsFrom(_, _)
GroupsFrom(targets, i) ==
    IF ~(i < Len(targets)) THEN <<>>
    ELSE Chunk(targets, i) \o GroupsFrom(targets, i + chunkSize)

\* The least number of groups of chunkSize that hold n records.
GroupCount(n) == (n + chunkSize - 1) \div chunkSize

\* Batch b is at a group of its list, has asked for every group up to it and
\* for none twice, and its groups make up its list.
ChunkedInOrder(b) ==
    LET n == Len(batches[b].targets)
    IN  /\ n > 0
        /\ batches[b].i % chunkSize = 0
        /\ batches[b].i < n
        /\ batches[b].requests = batches[b].i \div chunkSize + 1
        /\ Len(Chunk(batches[b].targets, batches[b].i)) \in 1..chunkSize
        /\ GroupsFrom(batches[b].targets, 0) = batches[b].targets
        /\ (batches[b].pc = "done" /\ ~batches[b].failed)
               => batches[b].requests = GroupCount(n)

AllChunkedInOrder == \A b \in 1..Len(batches) : ChunkedInOrder(b)

\* A request of batch b is made in the step only after the response for the
\* group before was applied and for the group that comes next.
NextGroupAfterResponse(b) ==
    /\ batches'[b].targets = batches[b].targets
    /\ batches'[b].requests \in {batches[b].requests, batches[b].requests + 1}
    /\ batches'[b].requests # batches[b].requests =>
          /\ batches[b].pc = "rest"
          /\ batches'[b].pc = "request"
          /\ batches'[b].i = batches[b].i + chunkSize

\* C24: executeGeneration over n target records asks for its groups one at a
\* time and in order, the groups being consecutive slices of 5 records (the
\* last possibly shorter) that make up the targets; a request starts only
\* after the response for the group before was applied, and a batch that
\* ends without a failure has made exactly ceil(n/5) requests.  (No batch is
\* begun for n = 0.)
C24_Chunking ==
    /\ []AllChunkedInOrder
    /\ [][\A b \in 1..Len(batches) : NextGroupAfterResponse(b)]_vars

\* A batch over six records has ended without a failure after two requests.
C24_Witness ==
    \E b \in 1..Len(batches) :
        /\ Len(batches[b].targets) = chunkSize + 1
        /\ batches[b].pc = "done"
        /\ ~batches[b].failed
        /\ batches[b].requests = 2

\* Batch b at rest has the seconds that passed and those to come make up the
\* delay.
RestCounted ==
    \A b \in 1..Len(batches) :
        batches[b].pc = "rest" =>
            /\ batches[b].t \in 1..delayTime
            /\ batches[b].t + batches[b].rested = delayTime

\* In the step, the response for a group that is not the last begins the
\* rest, the response for the last ends the batch at once, and a request is
\* made only when every second of the rest has passed.
RestBetweenGroups(b) ==
    /\ ResponseStep(b) =>
          IF batches[b].i + chunkSize < Len(batches[b].targets)
          THEN /\ batches'[b].pc = "rest"
               /\ batches'[b].t = delayTime
               /\ batches'[b].rested = 0
               /\ batches'[b].requests = batches[b].requests
          ELSE /\ batches'[b].pc = "done"
               /\ ~isGenerating'
    /\ batches'[b].requests # batches[b].requests =>
          /\ batches[b].pc = "rest"
          /\ batches'[b].rested = delayTime
    /\ batches[b].pc = "rest" =>
          \/ batches'[b] = batches[b]
          \/ /\ batches'[b].rested = batches[b].rested + 1
             /\ batches'[b].pc = (IF batches[b].rested + 1 = delayTime THEN "request"
                                  ELSE "rest")

\* C25: within one batch, between the response for one group and the request
\* for the next the loop waits the whole delay of 4 ticks of one second; no
\* delay is awaited after the last group, the batch ending with the last
\* response.
C25_FullDelay ==
    /\ []RestCounted
    /\ [][\A b \in 1..Len(batches) : RestBetweenGroups(b)]_vars

\* The request for the second group of a batch is under way, four ticks
\* after the response for the first.
C25_Witness ==
    \E b \in 1..Len(batches) :
        /\ batches[b].pc = "request"
        /\ batches[b].requests = 2
        /\ batches[b].rested = delayTime

\* The step is one of the generation: a call of executeGeneration or of
\* handleRegenerateSingle begins, goes on or ends, and no import ends.
GenerationStep ==
    /\ batches' # batches \/ singles' # singles
    /\ imports' = imports

\* The record at k differs after the step in comment and isProcessing at most.
SameButCommentAndFlag(k) ==
    appStudents'[k] = [appStudents[k] EXCEPT !.comment = appStudents'[k].comment,
                                             !.isProcessing = appStudents'[k].isProcessing]

\* C29: generation, batch or single, never adds, removes or reorders records
\* of the working set and never changes the id, the name or a score, rating
\* or absence field of a record: it writes comment and isProcessing only; so
\* a record that the user deleted while a request was in flight is not in the
\* list again when the response arrives.
C29_GenerationKeepsRecords ==
    [][GenerationStep =>
          /\ Len(appStudents') = Len(appStudents)
          /\ \A k \in 1..Len(appStudents) : SameButCommentAndFlag(k)
          /\ \A id \in deleted :
                id \notin Range(Ids(appStudents)) => id \notin Range(Ids(appStudents'))]_vars

\* A batch has ended with a mapping that holds the id of a deleted record,
\* and the list, which is not empty, is without that record.
C29_Witness ==
    \E b \in 1..Len(batches) :
        /\ batches[b].pc = "done"
        /\ Len(appStudents) > 0
        /\ \E id \in deleted :
              /\ id \in batches[b].got
              /\ id \notin Range(Ids(appStudents))

\* A record of the group that a batch is asking for has been deleted.
C29_WitnessInFlight ==
    \E b \in 1..Len(batches) :
        /\ batches[b].pc = "request"
        /\ Len(appStudents) > 0
        /\ \E id \in deleted :
              /\ id \in GroupOf(b)
              /\ id \notin Range(Ids(appStudents))

====
